---- MODULE Spec2Model ----
(***************************************************************************)
(* Bit-level codec core of libgamecommon: camoto::bitstream, the LZSS and  *)
(* LZW filters and the LZW Dictionary, modelled from src/src/bitstream.cpp,*)
(* src/src/filter-lzss.cpp and src/src/lzw.cpp.                            *)
(*                                                                         *)
(* A bitstream is a record with the fields of the C++ object (offset,      *)
(* curBitPos, bufByte, origBufByte, endianType) joined with the byte source*)
(* or sink it works on: the parent stream's content (parent) for a         *)
(* stream-bound bitstream, or the caller's buffers (inb/r/lenIn and        *)
(* outb/w/lenOut) for the callback overloads used inside the filters.      *)
(***************************************************************************)
EXTENDS Integers, Sequences, FiniteSets, TLC

VARIABLES bit,    \* stream-bound bitstream scenario: the bitstream and its parent
          hist,   \* what the caller of that bitstream did (observer only)
          lzss,   \* LZSS filters and their driver
          lzw,    \* LZW filters and their driver
          dict,   \* Dictionary::fillDecodedString, one loop iteration per step
          seg     \* stream::seg scenario: the segmented stream and its parent

vars == <<bit, hist, lzss, lzw, dict, seg>>

----------------------------------------------------------------------------
(* Bounds of the model *)

\* Number of bitstream calls in one run of the free interleaving.
MaxOps == 3

\* Length of the input whose codewords are written and read one per call.
MaxReserveLen == 24

\* Number of passes one LZSS decompressor is used for.
StatePasses == 2

\* Number of decode and reset calls made on one Dictionary.
MaxDictCalls == 4

\* Number of content-changing calls (write, insert, remove) on the segmented
\* stream.
MaxSegOps == 2

\* Number of values written (and read back) in one write/read round trip.
MaxRt == 3

\* Length of the byte strings compressed in a round trip.
MaxLen == 3

\* Number of literal tokens at the head of a token stream.
MaxLits == 3

\* Length of the long byte string of the LZW round trip.
MaxLzwLen == 771

\* Length of the buffers bufIn and bufOut with which the LZW passes are
\* driven, in place of BUFFER_SIZE, so that one transform call handles a
\* handful of codewords instead of thousands.
LzwBufSize == 8

\* Number of codewords in a stream handed to the LZW decompressor.
MaxCodes == 4

\* Largest table.size() of the dictionaries whose prefix chains are resolved.
MaxEntries == 3

\* Number of tokens of a token stream that is cut short.
MaxCut == 2

\* Length of the drivers' buffers where a pass is run with small buffers.
DrvBufSize == 2

\* Number of transform calls after which the loop of a pass is cut off.
MaxCalls == 20

----------------------------------------------------------------------------
(* Program constants *)

WASNT_BUFFERED == -1
INITIAL_VALUE == -2
BUFFER_SIZE == 4096
LZSS_LEFTOVER_BYTES == 2
LZW_LEFTOVER_BYTES == 2

littleEndian == "littleEndian"
bigEndian == "bigEndian"

----------------------------------------------------------------------------
(* C++ operators on 32-bit values.  An unsigned int u and the int holding   *)
(* the same 32 bits are both the integer u when u < 2^31 and u - 2^32       *)
(* otherwise: the value the bits have as a two's complement int.  Shifts    *)
(* and conversions act on the bits, as the compilers the library is built   *)
(* with define them (a right shift of a negative int copies the sign bit).  *)

\* The width of int and unsigned int.
INT_BITS == 32

RECURSIVE Pow2(_)
Pow2(n) == IF n <= 0 THEN 1 ELSE 2 * Pow2(n - 1)

\* The low 31 bits of x, and the value whose sign bit is top and whose low
\* 31 bits are low.
Low31(x) == IF x < 0 THEN (x + 2147483647) + 1 ELSE x
Pattern(top, low) == IF top THEN (low - 2147483647) - 1 ELSE low

RECURSIVE AndLow(_, _)
AndLow(a, b) ==
  IF a = 0 \/ b = 0 THEN 0
  ELSE (IF a % 2 = 1 /\ b % 2 = 1 THEN 1 ELSE 0) + 2 * AndLow(a \div 2, b \div 2)

RECURSIVE OrLow(_, _)
OrLow(a, b) ==
  IF a = 0 THEN b
  ELSE IF b = 0 THEN a
  ELSE (IF a % 2 = 1 \/ b % 2 = 1 THEN 1 ELSE 0) + 2 * OrLow(a \div 2, b \div 2)

\* a & b, a | b, ~x
And(a, b) == Pattern(a < 0 /\ b < 0, AndLow(Low31(a), Low31(b)))
Or(a, b) == Pattern(a < 0 \/ b < 0, OrLow(Low31(a), Low31(b)))
Not(x) == -1 - x

\* x << n for 0 <= n < 32: the bits shifted out at the top are lost.
Shl(x, n) ==
  IF n = 0 THEN x
  ELSE IF n = 31 THEN Pattern(Low31(x) % 2 = 1, 0)
  ELSE Pattern((Low31(x) \div Pow2(31 - n)) % 2 = 1,
               (Low31(x) % Pow2(31 - n)) * Pow2(n))

\* x >> n of an unsigned int, 0 <= n < 32: zeroes come in at the top.
Shr(x, n) ==
  IF n = 0 THEN x
  ELSE IF n = 31 THEN (IF x < 0 THEN 1 ELSE 0)
  ELSE (Low31(x) \div Pow2(n)) + (IF x < 0 THEN Pow2(31 - n) ELSE 0)

\* x >> n of an int, 0 <= n < 32: copies of the sign bit come in at the top.
Sar(x, n) == IF n >= 31 THEN (IF x < 0 THEN -1 ELSE 0) ELSE x \div Pow2(n)

\* (1 << bits) - 1 for bits < 32 and 0xFFFFFFFF for bits = 32.
Ones(bits) ==
  IF bits >= INT_BITS THEN -1
  ELSE IF bits = 31 THEN 2147483647 ELSE Pow2(bits) - 1

\* Conversion to uint8_t.
U8(x) == x % 256

\* C++ division and remainder truncate towards zero.
CDiv(a, b) == IF a >= 0 THEN a \div b ELSE -((-a) \div b)
CMod(a, b) == a - b * CDiv(a, b)

Min(a, b) == IF a < b THEN a ELSE b
Max(a, b) == IF a > b THEN a ELSE b

----------------------------------------------------------------------------
(* camoto::bitstream *)

\* The bitstream object after either constructor.
NewBitstream(endian) ==
  [offset |-> 0, curBitPos |-> 8, bufByte |-> 0,
   origBufByte |-> INITIAL_VALUE, endianType |-> endian]

\* No parent stream and no buffers: the part of a context a caller fills in.
NoIo ==
  [hasParent |-> FALSE, parent |-> <<>>,
   inb |-> <<>>, r |-> 0, lenIn |-> 0,
   outb |-> <<>>, w |-> 0, lenOut |-> 0,
   err |-> "", ret |-> 0, out |-> 0]

Ctx(bs, io) == bs @@ io

\* The bitstream fields of a context.
BsOf(c) ==
  [offset |-> c.offset, curBitPos |-> c.curBitPos, bufByte |-> c.bufByte,
   origBufByte |-> c.origBufByte, endianType |-> c.endianType]

\* stream::string write of one byte at byte offset off (off <= size).
PutAt(s, off, b) ==
  IF off = Len(s) THEN Append(s, b) ELSE [s EXCEPT ![off + 1] = b]

\* seekp + write of bufByte at byte offset off, then offset++.
WriteBufByteAt(c, off) ==
  IF off < 0 \/ off > Len(c.parent)
  THEN [c EXCEPT !.offset = off, !.err = "seek_error"]
  ELSE [c EXCEPT !.parent = PutAt(c.parent, off, c.bufByte),
                 !.offset = off + 1,
                 !.origBufByte = c.bufByte]

\* void bitstream::writeBufByte()
writeBufByte(c) ==
  IF c.origBufByte # INITIAL_VALUE /\ c.bufByte # c.origBufByte
  THEN WriteBufByteAt(c, IF c.origBufByte >= 0 THEN c.offset - 1 ELSE c.offset)
  ELSE c

\* The callbacks bound by the filters.
bitstreamFilterNextChar(c) ==
  IF c.r < c.lenIn
  THEN [ok |-> TRUE, b |-> c.inb[c.r + 1], c |-> [c EXCEPT !.r = c.r + 1]]
  ELSE [ok |-> FALSE, b |-> 0, c |-> c]

bitstreamFilterPutChar(c, b) ==
  IF c.w < c.lenOut
  THEN [ok |-> TRUE, c |-> [c EXCEPT !.outb = Append(c.outb, b), !.w = c.w + 1]]
  ELSE [ok |-> FALSE, c |-> c]

\* One byte from fnNextChar, or from the parent stream's seekg + try_read
\* when fn is NULL.
NextChar(c, fn) ==
  IF fn = "NULL"
  THEN IF c.offset < 0 \/ c.offset > Len(c.parent)
       THEN [ok |-> FALSE, b |-> 0, c |-> [c EXCEPT !.err = "seek_error"]]
       ELSE IF c.offset < Len(c.parent)
            THEN [ok |-> TRUE, b |-> c.parent[c.offset + 1], c |-> c]
            ELSE [ok |-> FALSE, b |-> 0, c |-> c]
  ELSE bitstreamFilterNextChar(c)

\* The return of read at end of data: bitsread, or for big-endian the value
\* padded with zero bits and the padding counted in.
ReadEof(c, bits, bitsread, out) ==
  IF bitsread = 0 THEN [c EXCEPT !.ret = 0, !.out = out]
  ELSE IF c.endianType = bigEndian
       THEN [c EXCEPT !.ret = bitsread + bits, !.out = Shl(out, bits)]
       ELSE [c EXCEPT !.ret = bitsread, !.out = out]

\* The bits of bufByte the current iteration of read takes.
ReadExval(c, bitsNow) ==
  IF c.endianType = littleEndian
  THEN And(Shr(c.bufByte, c.curBitPos), U8(Not(Shl(255, bitsNow))))
  ELSE Shr(And(Shl(c.bufByte, c.curBitPos), U8(Not(Shr(255, bitsNow)))),
           8 - bitsNow)

\* *out after the current iteration of read.
ReadOut(c, out, exval, bitsNow, bitsread) ==
  IF c.endianType = littleEndian
  THEN Or(out, Shl(exval, bitsread))
  ELSE Or(Shl(out, bitsNow), exval)

RECURSIVE ReadLoop(_, _, _, _, _)

\* The rest of an iteration of read once bitsNow is known.
ReadTake(c, fn, bits, bitsread, out, bitsNow) ==
  IF c.curBitPos + bitsNow > 8 THEN [c EXCEPT !.err = "assert_curBitPos"]
  ELSE ReadLoop([c EXCEPT !.curBitPos = c.curBitPos + bitsNow],
                fn, bits - bitsNow, bitsread + bitsNow,
                ReadOut(c, out, ReadExval(c, bitsNow), bitsNow, bitsread))

\* An iteration of read with bits left in bufByte.
ReadBuffered(c, fn, bits, bitsread, out) ==
  ReadTake(c, fn, bits, bitsread, out, Min(bits, 8 - c.curBitPos))

\* The refill of bufByte from the byte source; g is what the source returned.
ReadRefill(g, fn, bits, bitsread, out) ==
  IF g.c.err # "" THEN g.c
  ELSE IF ~g.ok THEN ReadEof(g.c, bits, bitsread, out)
  ELSE ReadBuffered([g.c EXCEPT !.bufByte = g.b, !.origBufByte = g.b,
                                !.offset = g.c.offset + 1, !.curBitPos = 0],
                    fn, bits, bitsread, out)

\* The fetch of the next byte; c1 is the bitstream after writeBufByte.
ReadFetch(c1, fn, bits, bitsread, out) ==
  IF c1.err # "" THEN c1
  ELSE ReadRefill(NextChar(c1, fn), fn, bits, bitsread, out)

\* The while (bits > 0) loop of read.
ReadLoop(c, fn, bits, bitsread, out) ==
  IF c.err # "" THEN c
  ELSE IF bits = 0 THEN [c EXCEPT !.ret = bitsread, !.out = out]
  ELSE IF c.curBitPos = 8
       THEN ReadFetch(IF c.hasParent THEN writeBufByte(c) ELSE c,
                      fn, bits, bitsread, out)
       ELSE ReadBuffered(c, fn, bits, bitsread, out)

\* bufByte after the merge of the bits written so far with the byte read.
MergeByte(bufByte, b, mask) ==
  U8(Or(And(bufByte, Not(mask)), And(b, mask)))

\* The merge at the head of read; g is what the byte source returned.
ReadMerge(c, g, fn, bits) ==
  IF g.c.err # "" THEN g.c
  ELSE IF ~g.ok THEN [g.c EXCEPT !.ret = 0, !.out = 0]
  ELSE ReadLoop(
         [g.c EXCEPT !.origBufByte = g.b,
                     !.offset = g.c.offset + 1,
                     !.bufByte = MergeByte(c.bufByte, g.b,
                                   IF c.endianType = littleEndian
                                   THEN Shl(255, c.curBitPos)
                                   ELSE Shr(255, c.curBitPos))],
         fn, bits, 0, 0)

\* int bitstream::read(fn_getnextchar fnNextChar, unsigned int bits, unsigned int *out)
\* fn is "NULL" for the stream-bound overload.  The return value is left in
\* ret and *out in out.
read(c, fn, bits) ==
  IF c.origBufByte = WASNT_BUFFERED
  THEN ReadMerge(c, NextChar(c, fn), fn, bits)
  ELSE ReadLoop(c, fn, bits, 0, 0)

\* writeMask and writeVal of an iteration of write, little endian.
LeMask(c, bitsNow) == Shl(And(Not(Shl(255, bitsNow)), 255), c.curBitPos)
LeVal(c, in, bitsNow) == And(Shl(in, c.curBitPos), LeMask(c, bitsNow))

\* writeMask and writeVal of an iteration of write, big endian; mask is
\* (bits == 32) ? 0xFFFFFFFF : (1 << bits) - 1.  writeMask and writeVal are
\* ints, so their shift to the right is the shift of an int.
BeMask0(mask, bitsNow) == And(Not(Shr(mask, bitsNow)), mask)
BeMask(c, bits, bitsNow) ==
  Shl(Sar(BeMask0(Ones(bits), bitsNow), bits - bitsNow),
      8 - bitsNow - c.curBitPos)

BeVal(c, bits, in, bitsNow) ==
  Shl(Sar(And(in, BeMask0(Ones(bits), bitsNow)), bits - bitsNow),
      8 - bitsNow - c.curBitPos)

RECURSIVE WriteLoop(_, _, _, _, _)

\* The store into bufByte that ends an iteration of write; inNext is in
\* after the iteration.
WriteStore(c, fn, bits, inNext, bitswritten, bitsNow, writeVal, writeMask) ==
  IF writeVal >= 256 THEN [c EXCEPT !.err = "assert"]
  ELSE IF c.curBitPos + bitsNow > 8 THEN [c EXCEPT !.err = "assert_curBitPos"]
  ELSE WriteLoop(
         [c EXCEPT !.bufByte = U8(Or(And(c.bufByte, Not(writeMask)), writeVal)),
                   !.curBitPos = c.curBitPos + bitsNow],
         fn, bits, inNext, bitswritten + bitsNow)

\* An iteration of write once bitsNow is known.
WriteBits(c, fn, bits, in, bitswritten, bitsNow) ==
  IF c.endianType = littleEndian
  THEN WriteStore(c, fn, bits, Shr(in, bitsNow), bitswritten, bitsNow,
                  LeVal(c, in, bitsNow), LeMask(c, bitsNow))
  ELSE WriteStore(c, fn, bits, And(Shl(in, bitsNow), Ones(bits)),
                  bitswritten, bitsNow,
                  BeVal(c, bits, in, bitsNow), BeMask(c, bits, bitsNow))

\* WriteBuffered taking all the bits left to write at once.
WriteBufferedWhole(c, fn, bits, in, bitswritten) ==
  WriteBits(c, fn, bits, in, bitswritten, bits - bitswritten)

\* An iteration of write with room left in bufByte.
WriteBuffered(c, fn, bits, in, bitswritten) ==
  WriteBits(c, fn, bits, in, bitswritten,
            Min(bits - bitswritten, 8 - c.curBitPos))

\* The start of a new byte; c1 is the bitstream after the full byte went out.
WriteFresh(c1, fn, bits, in, bitswritten) ==
  IF c1.err # "" THEN c1
  ELSE WriteBuffered([c1 EXCEPT !.origBufByte = WASNT_BUFFERED,
                                !.curBitPos = 0, !.bufByte = 0],
                     fn, bits, in, bitswritten)

\* The full byte handed to fnNextChar; p is what the callback returned.
WritePut(c, p, fn, bits, in, bitswritten) ==
  IF ~p.ok THEN [c EXCEPT !.ret = bitswritten]
  ELSE WriteFresh(p.c, fn, bits, in, bitswritten)

\* The full bit buffer written out.
WriteSpill(c, fn, bits, in, bitswritten) ==
  IF fn = "NULL" THEN WriteFresh(writeBufByte(c), fn, bits, in, bitswritten)
  ELSE IF c.origBufByte # INITIAL_VALUE /\ c.bufByte # c.origBufByte
       THEN WritePut(c, bitstreamFilterPutChar(c, c.bufByte),
                     fn, bits, in, bitswritten)
       ELSE WriteFresh(c, fn, bits, in, bitswritten)

\* The while (bitswritten < bits) loop of write.
WriteLoop(c, fn, bits, in, bitswritten) ==
  IF c.err # "" THEN c
  ELSE IF bitswritten >= bits THEN [c EXCEPT !.ret = bitswritten]
  ELSE IF c.curBitPos = 8 THEN WriteSpill(c, fn, bits, in, bitswritten)
       ELSE WriteBuffered(c, fn, bits, in, bitswritten)

\* write without the assertion on the value.
writeUnchecked(c, fn, bits, in) == WriteLoop(c, fn, bits, in, 0)

\* int bitstream::write(fn_putnextchar fnNextChar, unsigned int bits, unsigned int in)
\* fn is "NULL" for the stream-bound overload.  The return value is left in ret.
write(c, fn, bits, in) ==
  IF ~(bits = INT_BITS \/ (in >= 0 /\ in <= Ones(bits)))
  THEN [c EXCEPT !.err = "assert"]
  ELSE WriteLoop(c, fn, bits, in, 0)

\* The tail of flush; c1 is the bitstream after the merging read(0).
FlushWrite(c1) == IF c1.err # "" THEN c1 ELSE writeBufByte(c1)

\* void bitstream::flush()
flush(c) ==
  IF c.origBufByte = INITIAL_VALUE THEN c
  ELSE FlushWrite(IF c.curBitPos < 8 THEN read(c, "NULL", 0) ELSE c)

\* offset and bitOffset of seek before the caches are reset; f is the
\* bitstream after flush.
SeekTarget(f, off, way) ==
  LET bitOffset0 == CMod(off, 8)
      curBit == bitOffset0 + f.curBitPos
      curOff == (IF f.origBufByte >= 0 THEN f.offset - 1 ELSE f.offset)
                + CDiv(off, 8)
      offset1 == CASE way = "end" -> Len(f.parent) + CDiv(off, 8)
                   [] way = "cur" -> IF curBit > 7 THEN curOff + 1 ELSE curOff
                   [] OTHER -> CDiv(off, 8)
      bitOffset1 == IF way = "cur" /\ curBit > 7 THEN curBit - 8
                    ELSE IF way = "cur" THEN curBit ELSE bitOffset0
  IN IF bitOffset1 < 0
     THEN [offset |-> offset1 - 1, bitOffset |-> bitOffset1 + 8]
     ELSE [offset |-> offset1, bitOffset |-> bitOffset1]

\* The position seek returns; c2 is the bitstream after the read of the
\* bits before the destination.
SeekDone(c2, origOffset) ==
  IF c2.err # "" THEN c2
  ELSE [c2 EXCEPT !.ret = origOffset * 8 + (c2.curBitPos % 8)]

\* The caches reset and the destination byte read in.
SeekTo(f, t) ==
  IF t.offset < 0
  THEN [f EXCEPT !.offset = t.offset, !.err = "seek_error"]
  ELSE SeekDone(read([f EXCEPT !.offset = t.offset,
                               !.origBufByte = INITIAL_VALUE,
                               !.curBitPos = 8],
                     "NULL", t.bitOffset),
                t.offset)

\* seek after its flush.
SeekFlushed(f, off, way) ==
  IF f.err # "" THEN f
  ELSE IF way = "end" /\ (Len(f.parent) + CDiv(off, 8) < 0
                          \/ Len(f.parent) + CDiv(off, 8) > Len(f.parent))
       THEN [f EXCEPT !.err = "seek_error"]
       ELSE SeekTo(f, SeekTarget(f, off, way))

\* stream::pos bitstream::seek(stream::delta off, stream::seek_from way)
\* The position returned is left in ret.
seek(c, off, way) == SeekFlushed(flush(c), off, way)

\* The tail of flushByte.
FlushByteReset(c1) ==
  IF c1.err # "" THEN c1
  ELSE [c1 EXCEPT !.origBufByte = INITIAL_VALUE, !.curBitPos = 8, !.bufByte = 0]

\* void bitstream::flushByte(fn_putnextchar fnNextChar)
\* (flushByte() passes NULL).
flushByte(c, fn) ==
  FlushByteReset(
    IF c.hasParent THEN writeBufByte(c)
    ELSE IF c.origBufByte # INITIAL_VALUE /\ c.bufByte # c.origBufByte
         THEN IF fn = "NULL" THEN [c EXCEPT !.err = "bad_function_call"]
              ELSE bitstreamFilterPutChar(c, c.bufByte).c
         ELSE c)

----------------------------------------------------------------------------
(* The caller's view of a bit sequence: observer definitions, not program code *)

\* The i-th bit (from 0) a write of the width-bit value v emits.
EmittedBit(endian, width, v, i) ==
  IF endian = littleEndian THEN Shr(v, i) % 2 ELSE Shr(v, width - 1 - i) % 2

\* Bit k (from 0) of a byte sequence in the given bit order.
MediumBit(endian, bytes, k) ==
  LET byte == bytes[(k \div 8) + 1]
  IN IF endian = littleEndian THEN Shr(byte, k % 8) % 2 ELSE Shr(byte, 7 - (k % 8)) % 2

\* cover with bits p .. p+width-1 set to the bits of v; -1 marks a bit no write covered.
Cover(cover, endian, p, width, v) ==
  [k \in 1..Max(Len(cover), p + width) |->
     IF k - 1 >= p /\ k - 1 < p + width THEN EmittedBit(endian, width, v, k - 1 - p)
     ELSE IF k <= Len(cover) THEN cover[k] ELSE -1]

\* Bit counts and values the scenarios hand to read and write.
WidthSet == {1, 3, 9, INT_BITS}
Vals(width) ==
  {0, Ones(width)} \cup (IF width >= 3 THEN {Shl(1, width - 1) + 2} ELSE {})

\* Parent stream contents the scenarios start from.
Media == {<<>>, <<165>>, <<60, 165>>}

StreamBound(endian, content) ==
  Ctx(NewBitstream(endian), [NoIo EXCEPT !.hasParent = TRUE, !.parent = content])

Idle == [idle |-> TRUE]

----------------------------------------------------------------------------
(* SpecBit: any interleaving of read, write, seek and flush on a stream-bound *)
(* bitstream.  hist records the caller's position (gpos), the bits it wrote   *)
(* (cover) and the last call.                                                 *)

BitInit ==
  /\ \E e \in {littleEndian, bigEndian}, m \in Media :
       /\ bit = StreamBound(e, m)
       /\ hist = [orig |-> m, cover |-> <<>>, gpos |-> 0, nops |-> 0,
                  lastOp |-> "none", lastBits |-> 0, lastAvail |-> 0,
                  wide |-> FALSE]
  /\ lzss = Idle /\ lzw = Idle /\ dict = Idle /\ seg = Idle

BitCanStep == hist.nops < MaxOps /\ bit.err = ""

BitRead(bits) ==
  /\ BitCanStep
  /\ bit' = read(bit, "NULL", bits)
  /\ LET avail == Max(0, 8 * Len(bit.parent) - hist.gpos)
     IN hist' = [hist EXCEPT !.nops = @ + 1, !.lastOp = "read", !.lastBits = bits,
                             !.lastAvail = avail, !.gpos = @ + Min(bits, avail)]
  /\ UNCHANGED <<lzss, lzw, dict, seg>>

BitWrite(bits, v) ==
  /\ BitCanStep
  /\ bit' = write(bit, "NULL", bits, v)
  /\ hist' = [hist EXCEPT !.nops = @ + 1, !.lastOp = "write", !.lastBits = bits,
                          !.cover = Cover(@, bit.endianType, hist.gpos, bits, v),
                          !.gpos = @ + bits,
                          !.wide = @ \/ bits = INT_BITS]
  /\ UNCHANGED <<lzss, lzw, dict, seg>>

BitSeek(off) ==
  /\ BitCanStep
  /\ off <= 8 * Len(bit.parent)
  /\ bit' = seek(bit, off, "start")
  /\ hist' = [hist EXCEPT !.nops = @ + 1, !.lastOp = "seek", !.lastBits = off,
                          !.gpos = off]
  /\ UNCHANGED <<lzss, lzw, dict, seg>>

BitFlush ==
  /\ BitCanStep
  /\ bit' = flush(bit)
  /\ hist' = [hist EXCEPT !.nops = @ + 1, !.lastOp = "flush"]
  /\ UNCHANGED <<lzss, lzw, dict, seg>>

BitNext ==
  \/ \E bits \in WidthSet : BitRead(bits)
  \/ \E bits \in WidthSet : \E v \in Vals(bits) : BitWrite(bits, v)
  \/ \E off \in {0, 3, 8, 12, 16} : BitSeek(off)
  \/ BitFlush

SpecBit == BitInit /\ [][BitNext]_vars

----------------------------------------------------------------------------
(* Properties of SpecBit *)

\* C5 (partial-byte merge): once a run of read, write, seek and flush calls
\* ends with flush(), the call raised nothing, the medium holds every bit a
\* write covered with the last value written to it, and every bit of the
\* original medium that no write covered still has its original value.
PartialByteMerge ==
  hist.lastOp = "flush" =>
    /\ bit.err = ""
    /\ Len(hist.cover) <= 8 * Len(bit.parent)
    /\ Len(hist.orig) <= Len(bit.parent)
    /\ \A k \in 0 .. 8 * Len(bit.parent) - 1 :
         IF k < Len(hist.cover) /\ hist.cover[k + 1] # -1
         THEN MediumBit(bit.endianType, bit.parent, k) = hist.cover[k + 1]
         ELSE k < 8 * Len(hist.orig) =>
                MediumBit(bit.endianType, bit.parent, k)
                  = MediumBit(bit.endianType, hist.orig, k)

\* The same for little-endian bitstreams and for runs without a write of
\* INT_BITS bits.
PartialByteMergeNarrow ==
  (bit.endianType = littleEndian \/ ~hist.wide) => PartialByteMerge

\* A flush after a write that covered only part of a byte of a non-empty
\* medium and changed it, with a read among the earlier calls.
PartialByteMergeWitness ==
  /\ hist.lastOp = "flush"
  /\ hist.nops = 3
  /\ hist.orig # <<>>
  /\ bit.parent # hist.orig
  /\ Len(hist.cover) % 8 # 0
  /\ \E k \in 1 .. Len(hist.cover) : hist.cover[k] = -1

\* C6 (read returns the bits transferred): a read on a medium nothing was
\* written to returns the smaller of the bit count asked for and the number
\* of bits left before the end of the data.
ReadReturnsBitsTransferred ==
  (hist.lastOp = "read" /\ hist.cover = <<>> /\ bit.err = "") =>
    bit.ret = Min(hist.lastBits, hist.lastAvail)

\* A read that asked for more bits than were left, on a little-endian
\* bitstream, where the return is the number of bits left.
ShortReadWitness ==
  /\ hist.lastOp = "read"
  /\ hist.cover = <<>>
  /\ hist.lastAvail > 0
  /\ hist.lastAvail < hist.lastBits
  /\ bit.ret = hist.lastAvail

----------------------------------------------------------------------------
(* SpecRt: values written to a stream-bound bitstream, then flush, seek to  *)
(* bit 0 and the same widths read back.  hist records the values written    *)
(* (log), their bits in emission order (cover) and what the reads returned. *)

RtWidths == {1, 3, 9, 17, INT_BITS}

RtInit ==
  /\ \E e \in {littleEndian, bigEndian}, m \in Media :
       /\ bit = StreamBound(e, m)
       /\ hist = [phase |-> "write", orig |-> m, log |-> <<>>, cover |-> <<>>,
                  reads |-> <<>>]
  /\ lzss = Idle /\ lzw = Idle /\ dict = Idle /\ seg = Idle

RtWrite(bits, v) ==
  /\ hist.phase = "write"
  /\ bit.err = ""
  /\ Len(hist.log) < MaxRt
  /\ bit' = write(bit, "NULL", bits, v)
  /\ hist' = [hist EXCEPT !.log = Append(@, [width |-> bits, value |-> v]),
                          !.cover = Cover(@, bit.endianType, Len(@), bits, v)]
  /\ UNCHANGED <<lzss, lzw, dict, seg>>

RtFlush ==
  /\ hist.phase = "write"
  /\ bit.err = ""
  /\ hist.log # <<>>
  /\ bit' = flush(bit)
  /\ hist' = [hist EXCEPT !.phase = "flushed"]
  /\ UNCHANGED <<lzss, lzw, dict, seg>>

RtSeek ==
  /\ hist.phase = "flushed"
  /\ bit.err = ""
  /\ bit' = seek(bit, 0, "start")
  /\ hist' = [hist EXCEPT !.phase = "read"]
  /\ UNCHANGED <<lzss, lzw, dict, seg>>

RtRead ==
  /\ hist.phase = "read"
  /\ bit.err = ""
  /\ Len(hist.reads) < Len(hist.log)
  /\ bit' = read(bit, "NULL", hist.log[Len(hist.reads) + 1].width)
  /\ hist' = [hist EXCEPT !.reads = Append(@, [ret |-> bit'.ret, out |-> bit'.out])]
  /\ UNCHANGED <<lzss, lzw, dict, seg>>

RtNext ==
  \/ \E bits \in RtWidths : \E v \in Vals(bits) : RtWrite(bits, v)
  \/ RtFlush
  \/ RtSeek
  \/ RtRead

SpecRt == RtInit /\ [][RtNext]_vars

\* C3 (write/read round trip): after the writes, flush and seek to bit 0 no
\* call has raised, and every read so far returned the width it asked for and
\* the value written at that place in the sequence.
WriteReadRoundTrip ==
  /\ bit.err = ""
  /\ \A i \in 1 .. Len(hist.reads) :
       /\ hist.reads[i].ret = hist.log[i].width
       /\ hist.reads[i].out = hist.log[i].value

\* No value of INT_BITS bits was written, or the bitstream is little endian.
RtNarrow ==
  \/ bit.endianType = littleEndian
  \/ \A i \in 1 .. Len(hist.log) : hist.log[i].width < INT_BITS

\* The same for little-endian bitstreams and for sequences without a value
\* of INT_BITS bits.
WriteReadRoundTripNarrow == RtNarrow => WriteReadRoundTrip

\* Three values of different widths, one of them wider than two bytes, all
\* read back.
WriteReadRoundTripWitness ==
  /\ hist.phase = "read"
  /\ Len(hist.reads) = 3
  /\ hist.reads[1].ret = 3
  /\ hist.reads[2].ret = 17
  /\ hist.reads[2].out = Pow2(16) + 2
  /\ hist.reads[3].ret = 9

\* C4 (bit ordering): after the flush the k-th bit written is bit k mod 8
\* (little endian) or bit 7 - k mod 8 (big endian) of byte k div 8 of the
\* medium, with each value emitted least-significant bit first (little
\* endian) or most-significant bit first (big endian); and the 9-bit value
\* 0x102 written to an empty stream gives the bytes 02 01 in little endian
\* and 81 00 in big endian.
BitOrdering ==
  hist.phase = "flushed" =>
    /\ bit.err = ""
    /\ Len(hist.cover) <= 8 * Len(bit.parent)
    /\ \A k \in 0 .. Len(hist.cover) - 1 :
         MediumBit(bit.endianType, bit.parent, k) = hist.cover[k + 1]
    /\ (hist.orig = <<>> /\ hist.log = <<[width |-> 9, value |-> 258]>>) =>
         bit.parent = IF bit.endianType = littleEndian
                      THEN <<2, 1>> ELSE <<129, 0>>

\* The same for little-endian bitstreams and for sequences without a value
\* of INT_BITS bits.
BitOrderingNarrow == RtNarrow => BitOrdering

\* The 9-bit value 0x102 written to an empty big-endian stream and flushed.
BitOrderingWitness ==
  /\ hist.phase = "flushed"
  /\ hist.orig = <<>>
  /\ bit.endianType = bigEndian
  /\ hist.log = <<[width |-> 9, value |-> 258]>>
  /\ bit.parent = <<129, 0>>

----------------------------------------------------------------------------
(* filter_lzss_decompress and filter_lzss_compress.  A filter object is a   *)
(* record holding the fields of its bitstream (data), its own fields and,   *)
(* during a transform call, the caller's buffers (inb/r/lenIn, outb/w/      *)
(* lenOut); r and w are *lenIn and *lenOut on return.                       *)

\* filter_lzss_decompress::filter_lzss_decompress; junk is the content of the
\* window array, which the constructor leaves uninitialised.
NewLzssDecompress(endian, sizeLength, sizeDistance, junk) ==
  Ctx(NewBitstream(endian), NoIo) @@
  [sizeLength |-> sizeLength, sizeDistance |-> sizeDistance,
   state |-> "S0_READ_FLAG", maxDistance |-> Pow2(sizeDistance),
   window |-> [i \in 0 .. Pow2(sizeDistance) - 1 |-> junk],
   posWindow |-> 0, lzssLength |-> 0, lzssDistance |-> 0]

\* void filter_lzss_decompress::reset(stream::len lenInput)
LzssDecompressResetFields(t) ==
  IF t.err # "" THEN t
  ELSE [t EXCEPT !.state = "S0_READ_FLAG", !.posWindow = 0, !.lzssLength = 0]

LzssDecompressReset(t) == LzssDecompressResetFields(flushByte(t, "NULL"))

\* The buffers of a transform call.
EnterTransform(t, bufIn, lenOut) ==
  [t EXCEPT !.inb = bufIn, !.r = 0, !.lenIn = Len(bufIn),
            !.outb = <<>>, !.w = 0, !.lenOut = lenOut]

\* *out++ = b; w++; window[posWindow++] = b; posWindow %= maxDistance
LzssEmit(t, b) ==
  [t EXCEPT !.outb = Append(t.outb, b), !.w = t.w + 1,
            !.window = [t.window EXCEPT ![t.posWindow] = b],
            !.posWindow = (t.posWindow + 1) % t.maxDistance]

\* The number of bits the current state reads.
LzssBitsWanted(t) ==
  CASE t.state = "S0_READ_FLAG" -> 1
    [] t.state = "S1_COPY_BYTE" -> 8
    [] t.state = "S2_READ_LEN" -> t.sizeLength
    [] OTHER -> t.sizeDistance

RECURSIVE LzssDecompressLoop(_)

\* The cases S0..S3 after their read; bitsRead is in ret and code in out.
LzssAfterRead(t, wanted) ==
  IF t.err # "" THEN t
  ELSE IF t.state = "S0_READ_FLAG"
  THEN IF t.ret = 0 THEN t
       ELSE LzssDecompressLoop(
              [t EXCEPT !.state = IF t.out = 0 THEN "S1_COPY_BYTE"
                                  ELSE "S2_READ_LEN"])
  ELSE IF t.ret # wanted THEN t
  ELSE IF t.state = "S1_COPY_BYTE"
  THEN LzssDecompressLoop([LzssEmit(t, U8(t.out)) EXCEPT !.state = "S0_READ_FLAG"])
  ELSE IF t.state = "S2_READ_LEN"
  THEN LzssDecompressLoop([t EXCEPT !.lzssLength = 2 + t.out,
                                    !.state = "S3_READ_DIST"])
  ELSE LzssDecompressLoop([t EXCEPT !.lzssDistance = 1 + t.out,
                                    !.state = "S4_COPY_REF"])

\* LzssCopyRef going back to S0_READ_FLAG in the iteration that copies the
\* last byte.
LzssCopyRefEarly(t) ==
  IF t.lzssLength = 0 THEN [t EXCEPT !.state = "S0_READ_FLAG"]
  ELSE [LzssEmit(t, t.window[(t.maxDistance + t.posWindow - t.lzssDistance)
                             % t.maxDistance])
          EXCEPT !.lzssLength = t.lzssLength - 1,
                 !.state = IF t.lzssLength = 1 THEN "S0_READ_FLAG" ELSE @]

\* case State::S4_COPY_REF
LzssCopyRef(t) ==
  IF t.lzssLength = 0 THEN [t EXCEPT !.state = "S0_READ_FLAG"]
  ELSE [LzssEmit(t, t.window[(t.maxDistance + t.posWindow - t.lzssDistance)
                             % t.maxDistance])
          EXCEPT !.lzssLength = t.lzssLength - 1]

\* LzssDecompressLoop without the test for room in the output buffer.
LzssDecompressLoopUnbounded(t) ==
  IF ~(t.r < t.lenIn \/ t.lzssLength # 0) THEN t
  ELSE IF t.state = "S4_COPY_REF" THEN LzssDecompressLoop(LzssCopyRef(t))
  ELSE LzssAfterRead(read(t, "cbNext", LzssBitsWanted(t)), LzssBitsWanted(t))

\* The while loop of filter_lzss_decompress::transform.
LzssDecompressLoop(t) ==
  IF ~(t.w < t.lenOut /\ (t.r < t.lenIn \/ t.lzssLength # 0)) THEN t
  ELSE IF t.state = "S4_COPY_REF" THEN LzssDecompressLoop(LzssCopyRef(t))
  ELSE LzssAfterRead(read(t, "cbNext", LzssBitsWanted(t)), LzssBitsWanted(t))

\* void filter_lzss_decompress::transform(out, lenOut, in, lenIn)
LzssDecompressTransform(t, bufIn, lenOut) ==
  LzssDecompressLoop(EnterTransform(t, bufIn, lenOut))

\* filter_lzss_compress::filter_lzss_compress
NewLzssCompress(endian, sizeLength, sizeDistance) ==
  Ctx(NewBitstream(endian), NoIo) @@
  [sizeLength |-> sizeLength, sizeDistance |-> sizeDistance]

\* void filter_lzss_compress::reset(stream::len lenInput)
LzssCompressReset(t) == flushByte(t, "NULL")

RECURSIVE LzssCompressLoop(_)

\* in++; r++; if (bitsWritten < 9) break;
LzssAfterWrite(t) ==
  IF t.err # "" THEN t
  ELSE IF t.ret < 9 THEN [t EXCEPT !.r = t.r + 1]
  ELSE LzssCompressLoop([t EXCEPT !.r = t.r + 1])

\* The while loop of filter_lzss_compress::transform.
LzssCompressLoop(t) ==
  IF t.w + LZSS_LEFTOVER_BYTES < t.lenOut
     /\ (t.r + 1 < t.lenIn \/ (t.r < t.lenIn /\ t.lenIn < 2))
  THEN LzssAfterWrite(write(t, "cbNext", 9, t.inb[t.r + 1]))
  ELSE t

\* The flush that ends filter_lzss_compress::transform.
LzssCompressFlush(t) ==
  IF t.err = "" /\ t.w < t.lenOut /\ t.lenIn = 0
  THEN flushByte(t, "cbNext")
  ELSE t

\* void filter_lzss_compress::transform(out, lenOut, in, lenIn)
LzssCompressTransform(t, bufIn, lenOut) ==
  LzssCompressFlush(LzssCompressLoop(EnterTransform(t, bufIn, lenOut)))

----------------------------------------------------------------------------
(* stream::input_filtered::realPopulate, one iteration of its do loop per   *)
(* step.  A driver is the record [pos, leftover, data, done]: the parent's  *)
(* read position, the unprocessed bytes kept in bufIn, the filtered bytes   *)
(* so far, and whether the loop has ended.                                  *)

\* size is the length of the arrays bufIn and bufOut (BUFFER_SIZE in the code).
NewDriver ==
  [pos |-> 0, leftover |-> <<>>, data |-> <<>>, done |-> FALSE,
   size |-> BUFFER_SIZE]

\* lenRead of try_read(bufIn + lenLeftover, BUFFER_SIZE - lenLeftover)
LenRead(d, parent) == Min(d.size - Len(d.leftover), Len(parent) - d.pos)

\* bufIn as handed to transform.
BufIn(d, parent) ==
  d.leftover \o SubSeq(parent, d.pos + 1, d.pos + LenRead(d, parent))

\* AfterTransform with a loop that goes on after a call that returned
\* lenIn == 0 and lenOut == 0.
AfterTransformNoEnd(d, t, bufIn) ==
  [pos |-> d.pos + (Len(bufIn) - Len(d.leftover)),
   leftover |-> SubSeq(bufIn, t.r + 1, Len(bufIn)),
   data |-> d.data \o t.outb,
   done |-> t.err # "",
   size |-> d.size]

\* The driver after transform returned t for the input bufIn.
AfterTransform(d, t, bufIn) ==
  [pos |-> d.pos + (Len(bufIn) - Len(d.leftover)),
   leftover |-> SubSeq(bufIn, t.r + 1, Len(bufIn)),
   data |-> d.data \o t.outb,
   done |-> t.err # "" \/ (t.r = 0 /\ t.w = 0),
   size |-> d.size]

----------------------------------------------------------------------------
(* LZSS token streams: observer definitions used to build decompressor      *)
(* input and to state what it should decode to.                             *)

Lit(b) == [ref |-> FALSE, b |-> b, L |-> 0, D |-> 0]
Ref(L, D) == [ref |-> TRUE, b |-> 0, L |-> L, D |-> D]

\* The bit fields of a token: <<width, value>> pairs in stream order.
TokenFields(tok, sizeLength, sizeDistance) ==
  IF tok.ref THEN << <<1, 1>>, <<sizeLength, tok.L>>, <<sizeDistance, tok.D>> >>
  ELSE << <<1, 0>>, <<8, tok.b>> >>

RECURSIVE FieldsOf(_, _, _)
FieldsOf(toks, sizeLength, sizeDistance) ==
  IF toks = <<>> THEN <<>>
  ELSE TokenFields(Head(toks), sizeLength, sizeDistance)
         \o FieldsOf(Tail(toks), sizeLength, sizeDistance)

\* The fields written one after the other to a stream-bound bitstream.
RECURSIVE WriteFields(_, _)
WriteFields(c, fields) ==
  IF fields = <<>> THEN c
  ELSE WriteFields(write(c, "NULL", Head(fields)[1], Head(fields)[2]), Tail(fields))

\* The bytes of a token stream: its fields written to an empty stream, then flush.
EncodeTokens(endian, toks, sizeLength, sizeDistance) ==
  flush(WriteFields(StreamBound(endian, <<>>),
                    FieldsOf(toks, sizeLength, sizeDistance))).parent

\* L + 2 bytes appended to out, each the byte D + 1 places before it.
RECURSIVE CopyBack(_, _, _)
CopyBack(out, n, dist) ==
  IF n = 0 THEN out
  ELSE CopyBack(Append(out, out[Len(out) + 1 - dist]), n - 1, dist)

\* The bytes a token stream stands for.
RECURSIVE Expand(_, _)
Expand(toks, out) ==
  IF toks = <<>> THEN out
  ELSE IF Head(toks).ref
       THEN Expand(Tail(toks), CopyBack(out, Head(toks).L + 2, Head(toks).D + 1))
       ELSE Expand(Tail(toks), Append(out, Head(toks).b))

\* n distinct literals.
Lits(n) == [i \in 1 .. n |-> Lit(64 + i)]

\* Token streams: literals, a reference into them and possibly one more token;
\* every distance stays within the bytes output before it.
TokenTails == {<<>>, <<Lit(90)>>, <<Ref(1, 0)>>}
TokenStreams ==
  UNION { { Lits(n) \o <<Ref(L, D)>> \o tail :
              L \in {0, 1, 3}, D \in 0 .. n - 1, tail \in TokenTails } :
          n \in 1 .. MaxLits }

----------------------------------------------------------------------------
(* SpecLzss: an LZSS pass through input_filtered.  Either a byte string is  *)
(* compressed and the result decompressed (kind "roundtrip"), or the bytes  *)
(* of a token stream are decompressed (kind "tokens").  The compressing     *)
(* driver passes lenOut = BUFFER_SIZE as realPopulate does; the             *)
(* decompressing caller may pass a smaller output buffer.                   *)

LzssAlphabet == {0, 1, 165}
LzssStrings == UNION { [1 .. n -> LzssAlphabet] : n \in 0 .. MaxLen }
LzssSizes == { <<2, 2>>, <<4, 3>> }
WindowJunk == {0, 170}
OutCaps == {1, 2, BUFFER_SIZE}

LzssStart(kind, phase, endian, sizes, junk, src, toks, comp) ==
  [kind |-> kind, phase |-> phase, src |-> src, tokens |-> toks, comp |-> comp,
   enc |-> NewLzssCompress(endian, sizes[1], sizes[2]),
   dec |-> NewLzssDecompress(endian, sizes[1], sizes[2], junk),
   drv |-> NewDriver, populated |-> FALSE]

LzssInit ==
  /\ \E e \in {littleEndian, bigEndian}, junk \in WindowJunk :
       \/ \E s \in LzssStrings, sizes \in LzssSizes :
            lzss = LzssStart("roundtrip", "compress", e, sizes, junk, s, <<>>, <<>>)
       \/ \E toks \in TokenStreams :
            lzss = LzssStart("tokens", "decompress", e, <<2, 2>>, junk, <<>>, toks,
                             EncodeTokens(e, toks, 2, 2))
  /\ bit = Idle /\ hist = Idle /\ lzw = Idle /\ dict = Idle /\ seg = Idle

\* realPopulate up to its do loop: populated = true and the filter's reset.
LzssCompressBegin ==
  /\ lzss.phase = "compress" /\ ~lzss.populated
  /\ lzss' = [lzss EXCEPT !.populated = TRUE, !.enc = LzssCompressReset(lzss.enc)]
  /\ UNCHANGED <<bit, hist, lzw, dict, seg>>

\* lzss after an iteration of the compressing driver; t is the filter after
\* transform, d the driver after it.
LzssCompressed(t, d) ==
  IF t.err # "" THEN [lzss EXCEPT !.enc = t, !.drv = d, !.phase = "failed"]
  ELSE IF d.done
  THEN [lzss EXCEPT !.enc = t, !.comp = d.data, !.drv = NewDriver,
                    !.populated = FALSE, !.phase = "decompress"]
  ELSE [lzss EXCEPT !.enc = t, !.drv = d]

LzssCompressIter(t) ==
  lzss' = LzssCompressed(t, AfterTransform(lzss.drv, t, BufIn(lzss.drv, lzss.src)))

\* One iteration of realPopulate's loop around filter_lzss_compress.
LzssCompressStep ==
  /\ lzss.phase = "compress" /\ lzss.populated /\ lzss.enc.err = ""
  /\ LzssCompressIter(LzssCompressTransform(lzss.enc, BufIn(lzss.drv, lzss.src),
                                            BUFFER_SIZE))
  /\ UNCHANGED <<bit, hist, lzw, dict, seg>>

LzssDecompressBegin ==
  /\ lzss.phase = "decompress" /\ ~lzss.populated
  /\ lzss' = [lzss EXCEPT !.populated = TRUE, !.dec = LzssDecompressReset(lzss.dec)]
  /\ UNCHANGED <<bit, hist, lzw, dict, seg>>

LzssDecompressed(t, d) ==
  IF t.err # "" THEN [lzss EXCEPT !.dec = t, !.drv = d, !.phase = "failed"]
  ELSE IF d.done THEN [lzss EXCEPT !.dec = t, !.drv = d, !.phase = "done"]
  ELSE [lzss EXCEPT !.dec = t, !.drv = d]

LzssDecompressIter(t) ==
  lzss' = LzssDecompressed(t, AfterTransform(lzss.drv, t, BufIn(lzss.drv, lzss.comp)))

\* One iteration of the loop around filter_lzss_decompress, with lenOut bytes
\* of output space.
LzssDecompressStep(lenOut) ==
  /\ lzss.phase = "decompress" /\ lzss.populated /\ lzss.dec.err = ""
  /\ LzssDecompressIter(LzssDecompressTransform(lzss.dec, BufIn(lzss.drv, lzss.comp),
                                                lenOut))
  /\ UNCHANGED <<bit, hist, lzw, dict, seg>>

LzssNext ==
  \/ LzssCompressBegin
  \/ LzssCompressStep
  \/ LzssDecompressBegin
  \/ \E lenOut \in OutCaps : LzssDecompressStep(lenOut)

SpecLzss == LzssInit /\ [][LzssNext]_vars

\* C1 (LZSS round trip): when the compressor's output has been decompressed
\* to the end of the pass, the bytes produced are the bytes compressed.
LzssRoundTrip ==
  (lzss.kind = "roundtrip" /\ lzss.phase = "done") => lzss.drv.data = lzss.src

\* The same for big-endian filters only.
LzssRoundTripBigEndian ==
  (lzss.kind = "roundtrip" /\ lzss.dec.endianType = bigEndian) =>
    /\ lzss.phase # "failed"
    /\ lzss.phase = "done" => lzss.drv.data = lzss.src

\* C7 (LZSS back-reference expansion): at the end of a pass over a token
\* stream whose references all reach no further back than the bytes output,
\* no call has raised and the output holds, for every reference token, L + 2
\* bytes each equal to the byte D + 1 places before it.
LzssReferenceExpansion ==
  lzss.kind = "tokens" =>
    /\ lzss.phase # "failed"
    /\ lzss.phase = "done" => lzss.drv.data = Expand(lzss.tokens, <<>>)

\* What the decompressor has output is at every moment the beginning of what
\* the token stream stands for.
LzssOutputIsPrefix ==
  lzss.kind = "tokens" =>
    /\ Len(lzss.drv.data) <= Len(Expand(lzss.tokens, <<>>))
    /\ lzss.drv.data = SubSeq(Expand(lzss.tokens, <<>>), 1, Len(lzss.drv.data))

----------------------------------------------------------------------------
(* Dictionary (src/src/lzw.cpp).  A CodeString is [prefixIndex, k]; NONE is *)
(* the prefixIndex ~0U of an entry without prefix; tableSize is             *)
(* table.size().                                                            *)

NONE == -1

\* CodeString::CodeString(byte newByte, unsigned pI = ~0U)
CodeString(newByte) == [prefixIndex |-> NONE, k |-> U8(newByte)]

\* Dictionary::Dictionary(unsigned maxBits, unsigned codeStart)
NewDictionary(maxBits, codeStart) ==
  [table |-> [i \in 0 .. Pow2(maxBits) - 1 |->
                IF i < codeStart THEN CodeString(i) ELSE CodeString(0)],
   tableSize |-> Pow2(maxBits),
   codeStart |-> codeStart, newCodeStringIndex |-> codeStart,
   decodedString |-> <<>>]

\* The local state of fillDecodedString at its entry.
FillStart(code) ==
  [code |-> code, decodedString |-> <<>>, safety |-> 0, status |-> "run"]

\* FillEntry without the safety counter's throw.
FillEntryUnguarded(f, cs, tableSize) ==
  IF cs.prefixIndex = f.code
  THEN [f EXCEPT !.decodedString = Append(f.decodedString, cs.k),
                 !.status = "filter_error"]
  ELSE [f EXCEPT !.decodedString =
                   IF Len(f.decodedString) < tableSize * 2
                   THEN Append(f.decodedString, cs.k) ELSE f.decodedString,
                 !.code = cs.prefixIndex]

\* The rest of an iteration of fillDecodedString's loop once table[code] is
\* known to exist; cs is that entry.
FillEntry(f, cs, tableSize) ==
  IF cs.prefixIndex = f.code
  THEN [f EXCEPT !.decodedString = Append(f.decodedString, cs.k),
                 !.status = "filter_error"]
  ELSE [f EXCEPT !.decodedString = Append(f.decodedString, cs.k),
                 !.code = cs.prefixIndex,
                 !.safety = f.safety + 1,
                 !.status = IF f.safety + 1 > tableSize * 2
                            THEN "filter_error" ELSE "run"]

\* One evaluation of the loop condition of fillDecodedString and, if it
\* holds, one iteration of the body.
FillStep(table, tableSize, f) ==
  IF f.code = NONE THEN [f EXCEPT !.status = "done"]
  ELSE IF f.code >= tableSize THEN [f EXCEPT !.status = "filter_error"]
  ELSE FillEntry(f, table[f.code], tableSize)

\* FillStep while the loop is running, nothing once it has ended.
FillStepRun(table, tableSize, f) ==
  IF f.status # "run" THEN f ELSE FillStep(table, tableSize, f)

\* Four evaluations of the loop condition with their iterations.
FillSteps(table, tableSize, f) ==
  FillStepRun(table, tableSize,
    FillStepRun(table, tableSize,
      FillStepRun(table, tableSize,
        FillStepRun(table, tableSize, f))))

\* The loop, taken sixteen iterations at a time: a chain of prefixes that
\* runs in a circle is followed for 2 * table.size() iterations.
RECURSIVE FillLoop(_, _, _)
FillLoop(table, tableSize, f) ==
  IF f.status # "run" THEN f
  ELSE FillLoop(table, tableSize,
         FillSteps(table, tableSize,
           FillSteps(table, tableSize,
             FillSteps(table, tableSize,
               FillSteps(table, tableSize, f)))))

\* void Dictionary::fillDecodedString(unsigned code): its local state at the
\* return or the throw.
fillDecodedString(d, code) ==
  FillLoop(d.table, d.tableSize, FillStart(code))

\* The bytes decode pushes to outStream: decodedString from its last element
\* to its first and, for a code not in the table, its last element again.
DecodedBytes(decodedString, exists) ==
  [i \in 1 .. Len(decodedString) |-> decodedString[Len(decodedString) + 1 - i]]
    \o (IF exists THEN <<>> ELSE <<decodedString[Len(decodedString)]>>)

\* DictionaryAdd counting an entry for a full table as well.
DictionaryAddAlways(d, oldCode, k) ==
  IF d.newCodeStringIndex < d.tableSize
  THEN [d EXCEPT !.table = [d.table EXCEPT ![d.newCodeStringIndex] =
                               [prefixIndex |-> oldCode, k |-> k]],
                 !.newCodeStringIndex = d.newCodeStringIndex + 1]
  ELSE [d EXCEPT !.newCodeStringIndex = d.newCodeStringIndex + 1]

\* The entry decode adds unless the table is full.
DictionaryAdd(d, oldCode, k) ==
  IF d.newCodeStringIndex < d.tableSize
  THEN [d EXCEPT !.table = [d.table EXCEPT ![d.newCodeStringIndex] =
                               [prefixIndex |-> oldCode, k |-> k]],
                 !.newCodeStringIndex = d.newCodeStringIndex + 1]
  ELSE d

\* decode after fillDecodedString; f is its local state at the return or throw.
DecodeFilled(d, oldCode, exists, f) ==
  IF f.status = "filter_error"
  THEN [d |-> [d EXCEPT !.decodedString = f.decodedString],
        out |-> <<>>, err |-> "filter_error"]
  ELSE [d |-> DictionaryAdd([d EXCEPT !.decodedString = f.decodedString], oldCode,
                            f.decodedString[Len(f.decodedString)]),
        out |-> DecodedBytes(f.decodedString, exists),
        err |-> ""]

\* void Dictionary::decode(unsigned oldCode, unsigned code, std::deque<byte>& outStream)
\* d is the dictionary after the call, out the bytes pushed to outStream.
decode(d, oldCode, code) ==
  DecodeFilled(d, oldCode, code < d.newCodeStringIndex,
               fillDecodedString(d, IF code < d.newCodeStringIndex
                                    THEN code ELSE oldCode))

\* void Dictionary::reset()
DictionaryReset(d) ==
  [d EXCEPT !.newCodeStringIndex = d.codeStart,
            !.table = [i \in 0 .. d.tableSize - 1 |->
                         IF i < d.codeStart THEN CodeString(i) ELSE d.table[i]]]

----------------------------------------------------------------------------
(* filter_lzw_decompress.  flags is the set of the LZW_ flags given.        *)

\* filter_lzw_decompress::filter_lzw_decompress; junk stands for the members
\* the constructor leaves uninitialised.
NewLzwDecompress(cfg, junk) ==
  Ctx(NewBitstream(IF "LZW_BIG_ENDIAN" \in cfg.flags
                   THEN bigEndian ELSE littleEndian), NoIo) @@
  [maxBits |-> cfg.maxBits, flags |-> cfg.flags, eofCode |-> cfg.eofCode,
   resetCode |-> cfg.resetCode, initialBits |-> cfg.initialBits,
   dictionary |-> NewDictionary(cfg.maxBits, cfg.firstCode),
   code |-> 0, buffer |-> <<>>,
   currentBits |-> junk, maxCode |-> junk, curEOFCode |-> junk,
   curResetCode |-> junk, isDictReset |-> FALSE, oldCode |-> junk]

\* The reserved codewords recalcCodes takes off maxCode.
ReservedBelowMax(t) ==
  (IF "LZW_EOF_PARAM_VALID" \in t.flags /\ t.eofCode < 1 THEN 1 ELSE 0)
  + (IF "LZW_RESET_PARAM_VALID" \in t.flags /\ t.resetCode < 1 THEN 1 ELSE 0)

\* recalcCodes with the reserved codewords left as they were.
LzwDecompressRecalcMax(t) ==
  [t EXCEPT !.maxCode = (Pow2(t.currentBits) - 1) - ReservedBelowMax(t)]

\* void filter_lzw_decompress::recalcCodes()
LzwDecompressRecalcCodes(t) ==
  [t EXCEPT
     !.maxCode = (Pow2(t.currentBits) - 1) - ReservedBelowMax(t),
     !.curEOFCode = IF "LZW_EOF_PARAM_VALID" \in t.flags
                    THEN IF t.eofCode < 1
                         THEN (Pow2(t.currentBits) - 1) + t.eofCode
                         ELSE t.eofCode
                    ELSE t.curEOFCode,
     !.curResetCode = IF "LZW_RESET_PARAM_VALID" \in t.flags
                      THEN IF t.resetCode < 1
                           THEN (Pow2(t.currentBits) - 1) + t.resetCode
                           ELSE t.resetCode
                      ELSE t.curResetCode]

\* void filter_lzw_decompress::resetDictionary()
LzwDecompressResetDictionary(t) ==
  IF "LZW_NO_BITSIZE_RESET" \in t.flags
  THEN [t EXCEPT !.dictionary = DictionaryReset(t.dictionary),
                 !.isDictReset = TRUE]
  ELSE LzwDecompressRecalcCodes(
         [t EXCEPT !.dictionary = DictionaryReset(t.dictionary),
                   !.currentBits = t.initialBits,
                   !.isDictReset = TRUE])

\* reset after its flushByte.
LzwDecompressResetFields(t) ==
  IF t.err # "" THEN t
  ELSE LzwDecompressResetDictionary(
         LzwDecompressRecalcCodes([t EXCEPT !.currentBits = t.initialBits]))

\* void filter_lzw_decompress::reset(stream::len lenInput)
LzwDecompressReset(t) == LzwDecompressResetFields(flushByte(t, "NULL"))

\* The codeword widened after every decoded codeword, without the test of
\* dictionary.size() against maxCode.
LzwDecompressGrowAlways(t) ==
  IF t.currentBits = t.maxBits
  THEN IF "LZW_RESET_FULL_DICT" \in t.flags
       THEN LzwDecompressResetDictionary(t) ELSE t
  ELSE LzwDecompressRecalcCodes([t EXCEPT !.currentBits = t.currentBits + 1])

\* if (dictionary.size() > maxCode) ... of transform
LzwDecompressGrow(t) ==
  IF t.dictionary.newCodeStringIndex > t.maxCode
  THEN IF t.currentBits = t.maxBits
       THEN IF "LZW_RESET_FULL_DICT" \in t.flags
            THEN LzwDecompressResetDictionary(t) ELSE t
       ELSE LzwDecompressRecalcCodes([t EXCEPT !.currentBits = t.currentBits + 1])
  ELSE t

RECURSIVE LzwDecompressLoop(_)

\* if (this->buffer.empty()) break;
LzwIterationEnd(t) == IF t.buffer = <<>> THEN t ELSE LzwDecompressLoop(t)

\* transform from the return of dictionary.decode to the end of the iteration;
\* x is what decode returned.
LzwDecoded(t, x) ==
  IF x.err # "" THEN [t EXCEPT !.dictionary = x.d, !.err = x.err]
  ELSE LzwIterationEnd(
         [LzwDecompressGrow([t EXCEPT !.dictionary = x.d,
                                      !.buffer = t.buffer \o x.out])
            EXCEPT !.oldCode = t.code])

\* The reset codeword without the flushByte of LZW_FLUSH_ON_RESET and with
\* the width left as it is.
LzwResetCodeKeep(t) ==
  LzwDecompressLoop([t EXCEPT !.dictionary = DictionaryReset(t.dictionary),
                              !.isDictReset = TRUE])

\* The reset codeword.
LzwResetCode(t) ==
  IF "LZW_FLUSH_ON_RESET" \in t.flags
  THEN LzwDecompressLoop(flushByte(LzwDecompressResetDictionary(t), "NULL"))
  ELSE LzwDecompressLoop(LzwDecompressResetDictionary(t))

\* transform after a codeword was read, with no special case for the first
\* codeword after a reset of the dictionary.
LzwCodewordNoFirst(t) ==
  IF "LZW_EOF_PARAM_VALID" \in t.flags /\ t.code = t.curEOFCode
  THEN LzwDecompressLoop(t)
  ELSE IF "LZW_RESET_PARAM_VALID" \in t.flags /\ t.code = t.curResetCode
  THEN LzwResetCode(t)
  ELSE LzwDecoded(t, decode(t.dictionary, t.oldCode, t.code))

\* transform after a codeword was read in full; the codeword is in code.
LzwCodeword(t) ==
  IF "LZW_EOF_PARAM_VALID" \in t.flags /\ t.code = t.curEOFCode
  THEN LzwDecompressLoop(t)
  ELSE IF t.isDictReset
  THEN LzwDecompressLoop([t EXCEPT !.buffer = Append(t.buffer, U8(t.code)),
                                   !.oldCode = t.code,
                                   !.isDictReset = FALSE])
  ELSE IF "LZW_RESET_PARAM_VALID" \in t.flags /\ t.code = t.curResetCode
  THEN LzwResetCode(t)
  ELSE LzwDecoded(t, decode(t.dictionary, t.oldCode, t.code))

\* transform after data.read; bitsRead is in ret and the bits read in out.
LzwAfterRead(t) ==
  IF t.err # "" THEN t
  ELSE IF t.ret < t.currentBits THEN [t EXCEPT !.code = t.out]
  ELSE LzwCodeword([t EXCEPT !.code = t.out])

\* The while loop of transform without the test for the EOF codeword ahead of
\* the read.
LzwDecompressLoopNoEof(t) ==
  IF t.err # "" THEN t
  ELSE IF ~(t.w < t.lenOut
            /\ (t.r + LZW_LEFTOVER_BYTES < t.lenIn
                \/ (t.r < t.lenIn /\ t.lenIn <= LZW_LEFTOVER_BYTES)
                \/ t.buffer # <<>>))
  THEN t
  ELSE IF t.buffer # <<>>
  THEN LzwDecompressLoop([t EXCEPT !.outb = Append(t.outb, Head(t.buffer)),
                                   !.w = t.w + 1,
                                   !.buffer = Tail(t.buffer)])
  ELSE LzwAfterRead(read(t, "cbNext", t.currentBits))

\* The while loop of filter_lzw_decompress::transform.
LzwDecompressLoop(t) ==
  IF t.err # "" THEN t
  ELSE IF ~(t.w < t.lenOut
            /\ (t.r + LZW_LEFTOVER_BYTES < t.lenIn
                \/ (t.r < t.lenIn /\ t.lenIn <= LZW_LEFTOVER_BYTES)
                \/ t.buffer # <<>>))
  THEN t
  ELSE IF t.buffer # <<>>
  THEN LzwDecompressLoop([t EXCEPT !.outb = Append(t.outb, Head(t.buffer)),
                                   !.w = t.w + 1,
                                   !.buffer = Tail(t.buffer)])
  ELSE IF "LZW_EOF_PARAM_VALID" \in t.flags /\ t.code = t.curEOFCode THEN t
  ELSE LzwAfterRead(read(t, "cbNext", t.currentBits))

\* void filter_lzw_decompress::transform(out, lenOut, in, lenIn)
LzwDecompressTransform(t, bufIn, lenOut) ==
  LzwDecompressLoop(EnterTransform(t, bufIn, lenOut))

----------------------------------------------------------------------------
(* filter_lzw_compress *)

\* filter_lzw_compress::filter_lzw_compress; junk stands for the members the
\* constructor leaves uninitialised.
NewLzwCompress(cfg, junk) ==
  Ctx(NewBitstream(IF "LZW_BIG_ENDIAN" \in cfg.flags
                   THEN bigEndian ELSE littleEndian), NoIo) @@
  [maxBits |-> cfg.maxBits, flags |-> cfg.flags, eofCode |-> cfg.eofCode,
   resetCode |-> cfg.resetCode, firstCode |-> cfg.firstCode,
   initialBits |-> cfg.initialBits, dictSize |-> 256,
   currentBits |-> cfg.initialBits,
   maxCode |-> junk, curEOFCode |-> junk, curResetCode |-> junk]

\* The reset half of recalcCodes; t has maxCode and the EOF half done.
LzwCompressRecalcReset(t) ==
  IF "LZW_RESET_PARAM_VALID" \in t.flags
  THEN IF t.resetCode < 1
       THEN [t EXCEPT !.curResetCode = (Pow2(t.currentBits) - 1) + t.resetCode,
                      !.maxCode = t.maxCode - 1]
       ELSE [t EXCEPT !.curResetCode = t.resetCode,
                      !.dictSize = IF t.curEOFCode # t.resetCode
                                   THEN t.dictSize + 1 ELSE t.dictSize]
  ELSE t

\* The EOF half of recalcCodes; t has maxCode set to actualMaxCode.
LzwCompressRecalcEof(t) ==
  IF "LZW_EOF_PARAM_VALID" \in t.flags
  THEN IF t.eofCode < 1
       THEN [t EXCEPT !.curEOFCode = (Pow2(t.currentBits) - 1) + t.eofCode,
                      !.maxCode = t.maxCode - 1]
       ELSE [t EXCEPT !.curEOFCode = t.eofCode, !.dictSize = t.dictSize + 1]
  ELSE t

\* void filter_lzw_compress::recalcCodes()
LzwCompressRecalcCodes(t) ==
  LzwCompressRecalcReset(
    LzwCompressRecalcEof([t EXCEPT !.maxCode = Pow2(t.currentBits) - 1]))

\* void filter_lzw_compress::resetDictionary()
LzwCompressResetDictionary(t) ==
  IF "LZW_NO_BITSIZE_RESET" \in t.flags
  THEN [t EXCEPT !.dictSize = 256]
  ELSE LzwCompressRecalcCodes([t EXCEPT !.dictSize = 256,
                                        !.currentBits = t.initialBits])

\* reset after its flushByte.
LzwCompressResetFields(t) ==
  IF t.err # "" THEN t
  ELSE LzwCompressResetDictionary(
         LzwCompressRecalcCodes([t EXCEPT !.currentBits = t.initialBits]))

\* void filter_lzw_compress::reset(stream::len lenInput)
LzwCompressReset(t) == LzwCompressResetFields(flushByte(t, "NULL"))

\* if (this->dictSize > this->maxCode) ... else this->dictSize++
LzwCompressGrow(t) ==
  IF t.dictSize > t.maxCode
  THEN IF t.currentBits = t.maxBits
       THEN IF "LZW_RESET_FULL_DICT" \in t.flags
            THEN LzwCompressResetDictionary(t) ELSE t
       ELSE LzwCompressRecalcCodes([t EXCEPT !.currentBits = t.currentBits + 1])
  ELSE [t EXCEPT !.dictSize = t.dictSize + 1]

RECURSIVE LzwCompressLoop(_)

\* in++; r++; and the rest of the iteration; bits is currentBits at the write.
LzwAfterWrite(t, bits) ==
  IF t.err # "" THEN t
  ELSE IF t.ret < bits THEN [t EXCEPT !.r = t.r + 1]
  ELSE LzwCompressLoop(LzwCompressGrow([t EXCEPT !.r = t.r + 1]))

\* The loop with the reserve left out of its condition: it runs whenever a
\* byte of room is left.
LzwCompressLoopNoReserve(t) ==
  IF t.w < t.lenOut
     /\ (t.r + 1 < t.lenIn \/ (t.r < t.lenIn /\ t.lenIn < 2))
  THEN LzwAfterWrite(write(t, "cbNext", t.currentBits, t.inb[t.r + 1]),
                     t.currentBits)
  ELSE t

\* The while loop of filter_lzw_compress::transform.
LzwCompressLoop(t) ==
  IF t.w + LZW_LEFTOVER_BYTES < t.lenOut
     /\ (t.r + 1 < t.lenIn \/ (t.r < t.lenIn /\ t.lenIn < 2))
  THEN LzwAfterWrite(write(t, "cbNext", t.currentBits, t.inb[t.r + 1]),
                     t.currentBits)
  ELSE t

\* The final flushByte of transform.
LzwCompressFlush(t) ==
  IF t.err = "" /\ t.w < t.lenOut /\ t.lenIn = 0
  THEN flushByte(t, "cbNext")
  ELSE t

\* The EOF codeword written once there is no more input; curEOFCode = 0
\* after it.
LzwCompressEofWritten(t) ==
  IF t.err # "" THEN t ELSE [t EXCEPT !.curEOFCode = 0]

\* LzwCompressEof without the test for the end of the input.
LzwCompressEofEarly(t) ==
  IF t.err = "" /\ t.w < t.lenOut
     /\ "LZW_EOF_PARAM_VALID" \in t.flags /\ t.curEOFCode > 0
  THEN LzwCompressEofWritten(write(t, "cbNext", t.currentBits, t.curEOFCode))
  ELSE t

LzwCompressEof(t) ==
  IF t.err = "" /\ t.w < t.lenOut /\ t.lenIn = 0
     /\ "LZW_EOF_PARAM_VALID" \in t.flags /\ t.curEOFCode > 0
  THEN LzwCompressEofWritten(write(t, "cbNext", t.currentBits, t.curEOFCode))
  ELSE t

\* void filter_lzw_compress::transform(out, lenOut, in, lenIn)
LzwCompressTransform(t, bufIn, lenOut) ==
  LzwCompressFlush(LzwCompressEof(LzwCompressLoop(EnterTransform(t, bufIn, lenOut))))

----------------------------------------------------------------------------
(* SpecLzw: a byte string compressed by filter_lzw_compress and the result  *)
(* decompressed by filter_lzw_decompress with the same configuration, each  *)
(* driven by the loop of input_filtered::realPopulate.                      *)

LzwConfig(initialBits, maxBits, firstCode, eofCode, resetCode, flags) ==
  [initialBits |-> initialBits, maxBits |-> maxBits, firstCode |-> firstCode,
   eofCode |-> eofCode, resetCode |-> resetCode, flags |-> flags]

LzwConfigs ==
  { LzwConfig(9, 11, 256, 0, 0, {}),
    LzwConfig(9, 10, 257, 256, 0, {"LZW_BIG_ENDIAN", "LZW_EOF_PARAM_VALID"}),
    LzwConfig(9, 10, 257, 256, 0, {"LZW_BIG_ENDIAN", "LZW_EOF_PARAM_VALID",
                                   "LZW_NO_BITSIZE_RESET"}),
    LzwConfig(9, 9, 257, 256, 0, {"LZW_BIG_ENDIAN", "LZW_EOF_PARAM_VALID",
                                  "LZW_RESET_FULL_DICT"}),
    LzwConfig(9, 10, 256, 0, 0, {"LZW_EOF_PARAM_VALID"}) }

\* Strings of one repeated byte: short ones and one long enough for the
\* codeword width to grow twice.
LzwStrings == { [i \in 1 .. n |-> 97] : n \in {0, 1, 2, 3, MaxLzwLen} }

LzwJunk == {0, 257}

LzwDriver == [NewDriver EXCEPT !.size = LzwBufSize]

LzwInit ==
  /\ \E cfg \in LzwConfigs, s \in LzwStrings, junk \in LzwJunk :
       lzw = [phase |-> "compress", cfg |-> cfg, src |-> s, comp |-> <<>>,
              enc |-> NewLzwCompress(cfg, junk),
              dec |-> NewLzwDecompress(cfg, junk),
              drv |-> LzwDriver, populated |-> FALSE]
  /\ bit = Idle /\ hist = Idle /\ lzss = Idle /\ dict = Idle /\ seg = Idle

\* realPopulate up to its do loop: populated = true and the filter's reset.
LzwCompressBegin ==
  /\ lzw.phase = "compress" /\ ~lzw.populated
  /\ lzw' = [lzw EXCEPT !.populated = TRUE, !.enc = LzwCompressReset(lzw.enc)]
  /\ UNCHANGED <<bit, hist, lzss, dict, seg>>

LzwCompressed(t, d) ==
  IF t.err # "" THEN [lzw EXCEPT !.enc = t, !.drv = d, !.phase = "failed"]
  ELSE IF d.done
  THEN [lzw EXCEPT !.enc = t, !.comp = d.data, !.drv = LzwDriver,
                   !.populated = FALSE, !.phase = "decompress"]
  ELSE [lzw EXCEPT !.enc = t, !.drv = d]

LzwCompressIter(t) ==
  lzw' = LzwCompressed(t, AfterTransform(lzw.drv, t, BufIn(lzw.drv, lzw.src)))

\* One iteration of realPopulate's loop around filter_lzw_compress.
LzwCompressStep ==
  /\ lzw.phase = "compress" /\ lzw.populated /\ lzw.enc.err = ""
  /\ LzwCompressIter(LzwCompressTransform(lzw.enc, BufIn(lzw.drv, lzw.src),
                                          lzw.drv.size))
  /\ UNCHANGED <<bit, hist, lzss, dict, seg>>

LzwDecompressBegin ==
  /\ lzw.phase = "decompress" /\ ~lzw.populated
  /\ lzw' = [lzw EXCEPT !.populated = TRUE, !.dec = LzwDecompressReset(lzw.dec)]
  /\ UNCHANGED <<bit, hist, lzss, dict, seg>>

LzwDecompressed(t, d) ==
  IF t.err # "" THEN [lzw EXCEPT !.dec = t, !.drv = d, !.phase = "failed"]
  ELSE IF d.done THEN [lzw EXCEPT !.dec = t, !.drv = d, !.phase = "done"]
  ELSE [lzw EXCEPT !.dec = t, !.drv = d]

LzwDecompressIter(t) ==
  lzw' = LzwDecompressed(t, AfterTransform(lzw.drv, t, BufIn(lzw.drv, lzw.comp)))

\* One iteration of realPopulate's loop around filter_lzw_decompress.
LzwDecompressStep ==
  /\ lzw.phase = "decompress" /\ lzw.populated /\ lzw.dec.err = ""
  /\ LzwDecompressIter(LzwDecompressTransform(lzw.dec, BufIn(lzw.drv, lzw.comp),
                                              lzw.drv.size))
  /\ UNCHANGED <<bit, hist, lzss, dict, seg>>

LzwNext ==
  \/ LzwCompressBegin
  \/ LzwCompressStep
  \/ LzwDecompressBegin
  \/ LzwDecompressStep

SpecLzw == LzwInit /\ [][LzwNext]_vars

\* C2 (LZW round trip): no call of either pass raises, and when the
\* compressor's output has been decompressed to the end of the pass the bytes
\* produced are the bytes compressed.
LzwRoundTrip ==
  /\ lzw.phase # "failed"
  /\ lzw.phase = "done" => lzw.drv.data = lzw.src

----------------------------------------------------------------------------
(* SpecDecode: filter_lzw_decompress fed with arbitrary codewords, as the    *)
(* decompression tests of src/tests/test-lzw.cpp feed it.  The caller's     *)
(* output buffer holds one byte, so that one transform call decodes at most *)
(* one codeword; hist records what that call did.                           *)

\* The codewords a stream is drawn from, for each configuration.
DecodeCases ==
  { [cfg |-> LzwConfig(8, 8, 254, 0, 0, {}), codes |-> {97, 98, 254, 255}],
    [cfg |-> LzwConfig(9, 9, 257, 256, 0,
                       {"LZW_BIG_ENDIAN", "LZW_EOF_PARAM_VALID"}),
     codes |-> {97, 98, 256, 257, 258}] }

CodeStreams(codes) == UNION { [1 .. n -> codes] : n \in 1 .. MaxCodes }

\* The bytes of a codeword stream: each codeword written with width bits to an
\* empty stream, then flush.
EncodeCodes(endian, width, codes) ==
  flush(WriteFields(StreamBound(endian, <<>>),
                    [i \in 1 .. Len(codes) |-> <<width, codes[i]>>])).parent

NoCall ==
  [called |-> FALSE, first |-> FALSE, oldCode |-> 0, code |-> 0,
   before |-> <<>>, size |-> 0, after |-> <<>>, sizeAfter |-> 0,
   tableSize |-> 0, emitted |-> <<>>, err |-> "", tainted |-> FALSE]

DecodeInit ==
  /\ \E c \in DecodeCases, junk \in LzwJunk :
       \E codes \in CodeStreams(c.codes) :
         lzw = [phase |-> "decompress", cfg |-> c.cfg, codes |-> codes,
                comp |-> EncodeCodes(IF "LZW_BIG_ENDIAN" \in c.cfg.flags
                                     THEN bigEndian ELSE littleEndian,
                                     c.cfg.initialBits, codes),
                dec |-> NewLzwDecompress(c.cfg, junk),
                drv |-> LzwDriver, populated |-> FALSE]
  /\ hist = NoCall
  /\ bit = Idle /\ lzss = Idle /\ dict = Idle /\ seg = Idle

DecodeBegin ==
  /\ lzw.phase = "decompress" /\ ~lzw.populated
  /\ lzw' = [lzw EXCEPT !.populated = TRUE, !.dec = LzwDecompressReset(lzw.dec)]
  /\ UNCHANGED <<bit, hist, lzss, dict, seg>>

\* A codeword was read in full by the call that turned pre into t.
CodewordRead(pre, t) ==
  pre.buffer = <<>> /\ t.r > 0 /\ t.ret = pre.currentBits

\* What the call that turned pre into t did with the codeword it read.
CallRecord(pre, t, tainted) ==
  [called |-> /\ CodewordRead(pre, t) /\ ~pre.isDictReset
              /\ ~("LZW_EOF_PARAM_VALID" \in pre.flags /\ t.code = pre.curEOFCode),
   first |-> /\ CodewordRead(pre, t) /\ pre.isDictReset
             /\ ~("LZW_EOF_PARAM_VALID" \in pre.flags /\ t.code = pre.curEOFCode),
   oldCode |-> pre.oldCode, code |-> t.code,
   before |-> pre.dictionary.table, size |-> pre.dictionary.newCodeStringIndex,
   after |-> t.dictionary.table, sizeAfter |-> t.dictionary.newCodeStringIndex,
   tableSize |-> pre.dictionary.tableSize,
   emitted |-> t.outb \o t.buffer, err |-> t.err, tainted |-> tainted]

\* An earlier codeword of the stream was out of range: a first codeword that
\* is not a byte value, or a later one above the next free slot.
Tainted(h) ==
  \/ h.tainted
  \/ h.called /\ h.code > h.size
  \/ h.first /\ h.code >= h.size

DecodeIter(t) ==
  /\ lzw' = LzwDecompressed(t, AfterTransform(lzw.drv, t, BufIn(lzw.drv, lzw.comp)))
  /\ hist' = CallRecord(lzw.dec, t, Tainted(hist))

\* One iteration of the caller's loop: transform with the input not yet
\* consumed and room for one byte of output.
DecodeStep ==
  /\ lzw.phase = "decompress" /\ lzw.populated /\ lzw.dec.err = ""
  /\ DecodeIter(LzwDecompressTransform(lzw.dec, BufIn(lzw.drv, lzw.comp), 1))
  /\ UNCHANGED <<bit, lzss, dict, seg>>

DecodeNext ==
  \/ DecodeBegin
  \/ DecodeStep

SpecDecode == DecodeInit /\ [][DecodeNext]_vars

\* The byte string of the entry code of table, root byte first; NONE stands
\* in it for a prefix that leads nowhere within fuel steps.
RECURSIVE EntryString(_, _, _)
EntryString(table, code, fuel) ==
  IF code = NONE THEN <<>>
  ELSE IF fuel = 0 \/ code \notin DOMAIN table THEN <<NONE>>
  ELSE Append(EntryString(table, table[code].prefixIndex, fuel - 1),
              table[code].k)

StringOf(table, code) == EntryString(table, code, MaxCodes + 2)

\* What a decode step is to emit for the call recorded in h.
StepString(h) ==
  IF h.code < h.size THEN StringOf(h.before, h.code)
  ELSE Append(StringOf(h.before, h.oldCode), StringOf(h.before, h.oldCode)[1])

\* The call recorded in h emitted the string of its codeword and added the
\* one entry for it, or none to a full table.
StepDone(h) ==
  /\ h.err = ""
  /\ NONE \notin { StepString(h)[i] : i \in 1 .. Len(StepString(h)) }
  /\ h.emitted = StepString(h)
  /\ IF h.size < h.tableSize
     THEN /\ h.sizeAfter = h.size + 1
          /\ \A i \in DOMAIN h.before : i # h.size => h.after[i] = h.before[i]
          /\ StringOf(h.after, h.size)
               = Append(StringOf(h.before, h.oldCode), h.emitted[1])
     ELSE h.sizeAfter = h.size /\ h.after = h.before

\* C8 (LZW decode step): a codeword that is neither EOF, reset nor the first
\* after a reset, and that is below the dictionary size or equal to the next
\* free slot, is decoded without error: the entry's string is emitted root
\* byte first (oldCode's string and its first byte for the next free slot),
\* and one entry, oldCode's string plus the first byte emitted, is added
\* unless the table is full.
LzwDecodeStep ==
  (hist.called /\ hist.code <= hist.size) => StepDone(hist)

\* The decode step on streams none of whose earlier codewords was out of range.
LzwDecodeStepUntainted ==
  (hist.called /\ hist.code <= hist.size /\ ~hist.tainted) => StepDone(hist)

\* C9 (LZW corrupt codeword): a codeword above the next free slot that is
\* neither EOF, reset nor the first after a reset makes the call raise
\* filter_error and emit nothing.
LzwCorruptCodewordRejected ==
  (hist.called /\ hist.code > hist.size)
    => (hist.err = "filter_error" /\ hist.emitted = <<>>)

----------------------------------------------------------------------------
(* SpecFill: Dictionary::fillDecodedString on an arbitrary table, one       *)
(* evaluation of its loop condition and one iteration of its body per step. *)

\* The prefixIndex values of the entries and the codes looked up: no prefix,
\* every index of the table and one index beyond it.
FillCodes(n) == {NONE} \cup (0 .. n)

FillTables(n) ==
  { [i \in 0 .. n - 1 |-> [prefixIndex |-> p[i], k |-> i]] :
      p \in [0 .. n - 1 -> FillCodes(n)] }

FillInit ==
  /\ \E n \in 1 .. MaxEntries :
       \E table \in FillTables(n), code \in FillCodes(n) :
         dict = [table |-> table, tableSize |-> n, start |-> code,
                 f |-> FillStart(code)]
  /\ bit = Idle /\ hist = Idle /\ lzss = Idle /\ lzw = Idle /\ seg = Idle

FillIterate ==
  /\ dict.f.status = "run"
  /\ dict' = [dict EXCEPT !.f = FillStep(dict.table, dict.tableSize, dict.f)]
  /\ UNCHANGED <<bit, hist, lzss, lzw, seg>>

FillNext == FillIterate

SpecFill == FillInit /\ [][FillNext]_vars /\ WF_vars(FillIterate)

\* The bytes k of the entries on the prefix chain from code, at most fuel of
\* them.
RECURSIVE Chain(_, _, _)
Chain(table, code, fuel) ==
  IF fuel = 0 \/ code \notin DOMAIN table THEN <<>>
  ELSE <<table[code].k>> \o Chain(table, table[code].prefixIndex, fuel - 1)

\* What the loop has done so far: no more than 2 * tableSize + 1 iterations;
\* a return has reached a root and collected the chain from the starting
\* code, last byte first; a throw has one of its three causes.
FillOutcome ==
  /\ dict.f.safety <= 2 * dict.tableSize + 1
  /\ dict.f.status = "done" =>
       /\ dict.f.code = NONE
       /\ Len(dict.f.decodedString) <= dict.tableSize
       /\ dict.f.decodedString = Chain(dict.table, dict.start, dict.tableSize)
  /\ dict.f.status = "filter_error" =>
       \/ dict.f.code >= dict.tableSize
       \/ dict.table[dict.f.code].prefixIndex = dict.f.code
       \/ dict.f.safety > 2 * dict.tableSize

\* C10 (fillDecodedString terminates): from every table and every starting
\* code the loop ends, by the return at a root entry or by the throw of
\* filter_error for an index at or beyond the table, an entry whose prefix is
\* itself or more than 2 * tableSize steps; it never runs on, a cycle of two
\* or more entries included.
FillTerminates == []FillOutcome /\ <>(dict.f.status # "run")

\* A cycle of two or more entries stopped by the safety counter.
FillTerminatesWitness ==
  /\ dict.f.status = "filter_error"
  /\ dict.f.safety > 2 * dict.tableSize
  /\ dict.f.code \in DOMAIN dict.table
  /\ dict.table[dict.f.code].prefixIndex # dict.f.code
  /\ dict.tableSize >= 2

----------------------------------------------------------------------------
(* SpecLzssCut: filter_lzss_decompress, driven as in SpecLzss, on the bytes *)
(* of a token stream cut short inside a token: the last byte supplied ends  *)
(* after the token's flag bit and before the end of its literal, length or  *)
(* distance field.                                                          *)

\* The number of bits of a token.
TokenBits(tok, sizeLength, sizeDistance) ==
  IF tok.ref THEN 1 + sizeLength + sizeDistance ELSE 9

RECURSIVE StreamBits(_, _, _)
StreamBits(toks, sizeLength, sizeDistance) ==
  IF toks = <<>> THEN 0
  ELSE TokenBits(Head(toks), sizeLength, sizeDistance)
         + StreamBits(Tail(toks), sizeLength, sizeDistance)

\* The first pos bits of the stream end inside a token, after its flag bit.
MidToken(toks, sizeLength, sizeDistance, pos) ==
  \E i \in 1 .. Len(toks) :
    /\ StreamBits(SubSeq(toks, 1, i - 1), sizeLength, sizeDistance) + 1 <= pos
    /\ pos < StreamBits(SubSeq(toks, 1, i), sizeLength, sizeDistance)

\* Tokens none of whose fields can be taken for the zero bits that pad the
\* last byte of a stream.
CutAlphabet == {Lit(255), Lit(65), Ref(3, 3)}
CutStreams == UNION { [1 .. n -> CutAlphabet] : n \in 1 .. MaxCut }

CutInit ==
  /\ \E e \in {littleEndian, bigEndian}, junk \in WindowJunk,
        sizes \in LzssSizes, toks \in CutStreams, n \in 1 .. MaxCut + 1 :
       /\ n < Len(EncodeTokens(e, toks, sizes[1], sizes[2]))
       /\ MidToken(toks, sizes[1], sizes[2], 8 * n)
       /\ lzss = LzssStart("cut", "decompress", e, sizes, junk, <<>>, toks,
                           SubSeq(EncodeTokens(e, toks, sizes[1], sizes[2]), 1, n))
  /\ bit = Idle /\ hist = Idle /\ lzw = Idle /\ dict = Idle /\ seg = Idle

CutNext ==
  \/ LzssDecompressBegin
  \/ \E lenOut \in OutCaps : LzssDecompressStep(lenOut)

SpecLzssCut == CutInit /\ [][CutNext]_vars

\* The decompressor has consumed the flag bit of a token and not yet all of
\* the field that follows it.
LzssMidToken ==
  lzss.dec.state \in {"S1_COPY_BYTE", "S2_READ_LEN", "S3_READ_DIST"}

\* C11 (LZSS truncated token): when the input ends after the flag bit of a
\* token was consumed and before its literal, length or distance field is
\* complete, the pass does not end as a normal end of stream: the call that
\* finds the field incomplete raises filter_error.
LzssTruncatedTokenRejected ==
  (lzss.kind = "cut" /\ LzssMidToken) => lzss.phase # "done"

\* Such a pass has ended, without an error, inside a reference token.
LzssTruncatedTokenWitness ==
  /\ lzss.kind = "cut" /\ lzss.phase = "done"
  /\ lzss.dec.state \in {"S2_READ_LEN", "S3_READ_DIST"}

----------------------------------------------------------------------------
(* SpecLzwCut: filter_lzw_decompress with an EOF codeword configured,       *)
(* driven as in SpecLzw, on a stream of byte codewords and the EOF codeword *)
(* from which the last bytes are missing, so that the input ends before    *)
(* the whole EOF codeword.                                                 *)

\* The EOF codeword of a configuration at its initial width.
InitialEofCode(cfg) ==
  IF cfg.eofCode < 1 THEN (Pow2(cfg.initialBits) - 1) + cfg.eofCode
  ELSE cfg.eofCode

LzwCutConfigs ==
  { LzwConfig(9, 10, 256, 0, 0, {"LZW_EOF_PARAM_VALID"}),
    LzwConfig(9, 9, 257, 256, 0, {"LZW_BIG_ENDIAN", "LZW_EOF_PARAM_VALID"}) }

LzwCutStreams(cfg) ==
  { codes \o <<InitialEofCode(cfg)>> :
      codes \in UNION { [1 .. n -> {97, 98}] : n \in 1 .. MaxCut + 1 } }

LzwEndian(cfg) ==
  IF "LZW_BIG_ENDIAN" \in cfg.flags THEN bigEndian ELSE littleEndian

LzwCutInit ==
  /\ \E cfg \in LzwCutConfigs, junk \in LzwJunk :
       \E codes \in LzwCutStreams(cfg), n \in 1 .. MaxCut + 2 :
         /\ n < Len(EncodeCodes(LzwEndian(cfg), cfg.initialBits, codes))
         /\ lzw = [phase |-> "decompress", cfg |-> cfg, codes |-> codes,
                   comp |-> SubSeq(EncodeCodes(LzwEndian(cfg), cfg.initialBits,
                                               codes), 1, n),
                   dec |-> NewLzwDecompress(cfg, junk),
                   drv |-> LzwDriver, populated |-> FALSE]
  /\ bit = Idle /\ hist = Idle /\ lzss = Idle /\ dict = Idle /\ seg = Idle

LzwCutNext ==
  \/ LzwDecompressBegin
  \/ LzwDecompressStep

SpecLzwCut == LzwCutInit /\ [][LzwCutNext]_vars

\* The decompressor has an EOF codeword configured and the last codeword it
\* read is not that codeword.
LzwEofNotRead ==
  /\ "LZW_EOF_PARAM_VALID" \in lzw.dec.flags
  /\ lzw.dec.code # lzw.dec.curEOFCode

\* C12 (LZW truncated input): with an EOF codeword configured, a pass whose
\* input ends before that codeword was read does not finish normally: the
\* call whose read returns fewer than currentBits bits raises filter_error.
LzwTruncatedInputRejected ==
  LzwEofNotRead => lzw.phase # "done"

\* A pass has finished normally after a read that returned fewer bits than a
\* codeword has, the EOF codeword not read.
LzwTruncatedInputWitness ==
  /\ LzwEofNotRead /\ lzw.phase = "done"
  /\ lzw.dec.ret < lzw.dec.currentBits
  /\ lzw.dec.r = 0 /\ lzw.dec.w = 0

----------------------------------------------------------------------------
(* stream::output_filtered::flush, one iteration of its do loop per step.   *)
(* Its driver is the record [rest, data, done, size]: the bytes of the      *)
(* in-memory buffer not yet consumed (bufIn, lenRemaining), the filtered    *)
(* bytes kept so far (bufOut, lenFinal), whether the loop has ended, and    *)
(* lenOut as passed to transform (BUFFER_SIZE in the code).                 *)

NewFlushDriver(src) ==
  [rest |-> src, data |-> <<>>, done |-> FALSE, size |-> BUFFER_SIZE]

\* The flush driver after transform returned t: lenFinal += lenOut;
\* bufIn += lenIn; lenRemaining -= lenIn; while (lenIn != 0 && lenOut != 0).
FlushAfterTransform(d, t) ==
  [rest |-> SubSeq(d.rest, t.r + 1, Len(d.rest)),
   data |-> d.data \o t.outb,
   done |-> t.err # "" \/ ~(t.r # 0 /\ t.w # 0),
   size |-> d.size]

----------------------------------------------------------------------------
(* SpecDrivers: an LZSS filter run to the end of a pass by one of the two   *)
(* drivers, input_filtered::realPopulate or output_filtered::flush.  The    *)
(* compressor gets a byte string, the decompressor the bytes of a token     *)
(* stream.  flt is the filter, drv the driver's locals; for the             *)
(* decompressor the drivers' buffers may be scaled down to DrvBufSize.      *)

DrvSizes(filter) ==
  IF filter = "decompress" THEN {DrvBufSize, BUFFER_SIZE} ELSE {BUFFER_SIZE}

DrvStart(driver, filter, flt, src, size) ==
  [kind |-> "drivers", driver |-> driver, filter |-> filter, flt |-> flt,
   src |-> src, phase |-> "run", populated |-> FALSE,
   drv |-> IF driver = "input_filtered" THEN [NewDriver EXCEPT !.size = size]
           ELSE [NewFlushDriver(src) EXCEPT !.size = size]]

DrvInit ==
  /\ \E driver \in {"input_filtered", "output_filtered"},
        e \in {littleEndian, bigEndian} :
       \/ \E s \in LzssStrings :
            lzss = DrvStart(driver, "compress", NewLzssCompress(e, 2, 2), s,
                            BUFFER_SIZE)
       \/ \E toks \in TokenStreams, size \in DrvSizes("decompress") :
            lzss = DrvStart(driver, "decompress",
                            NewLzssDecompress(e, 2, 2, 0),
                            EncodeTokens(e, toks, 2, 2), size)
  /\ bit = Idle /\ hist = Idle /\ lzw = Idle /\ dict = Idle /\ seg = Idle

\* Both drivers up to their do loop: the flag that the pass was started
\* (populated, done_filter) and the filter's reset.
DrvBegin ==
  /\ lzss.phase = "run" /\ ~lzss.populated
  /\ lzss' = [lzss EXCEPT !.populated = TRUE,
                          !.flt = IF lzss.filter = "compress"
                                  THEN LzssCompressReset(lzss.flt)
                                  ELSE LzssDecompressReset(lzss.flt)]
  /\ UNCHANGED <<bit, hist, lzw, dict, seg>>

\* The filter's transform on bufIn with lenOut bytes of output space.
DrvTransform(l, bufIn, lenOut) ==
  IF l.filter = "compress" THEN LzssCompressTransform(l.flt, bufIn, lenOut)
  ELSE LzssDecompressTransform(l.flt, bufIn, lenOut)

\* lzss after an iteration that left the filter as t and the driver as d.
DrvIterated(t, d) ==
  [lzss EXCEPT !.flt = t, !.drv = d,
               !.phase = IF t.err # "" THEN "failed"
                         ELSE IF d.done THEN "done" ELSE "run"]

DrvPopulateIter(t) ==
  lzss' = DrvIterated(t, AfterTransform(lzss.drv, t, BufIn(lzss.drv, lzss.src)))

\* One iteration of the loop of input_filtered::realPopulate.
DrvPopulateStep ==
  /\ lzss.phase = "run" /\ lzss.populated /\ lzss.driver = "input_filtered"
  /\ DrvPopulateIter(DrvTransform(lzss, BufIn(lzss.drv, lzss.src), lzss.drv.size))
  /\ UNCHANGED <<bit, hist, lzw, dict, seg>>

DrvFlushIter(t) ==
  lzss' = DrvIterated(t, FlushAfterTransform(lzss.drv, t))

\* One iteration of the loop of output_filtered::flush.
DrvFlushStep ==
  /\ lzss.phase = "run" /\ lzss.populated /\ lzss.driver = "output_filtered"
  /\ DrvFlushIter(DrvTransform(lzss, lzss.drv.rest, lzss.drv.size))
  /\ UNCHANGED <<bit, hist, lzw, dict, seg>>

DrvNext ==
  \/ DrvBegin
  \/ DrvPopulateStep
  \/ DrvFlushStep

SpecDrivers == DrvInit /\ [][DrvNext]_vars

\* C13 (transform completion protocol): when either driver's loop has ended
\* without an error, the last transform call returned lenIn == 0 and
\* lenOut == 0; neither driver stops after a call in which only one of the
\* two is zero.
TransformCompletionProtocol ==
  (lzss.kind = "drivers" /\ lzss.phase = "done")
    => (lzss.flt.r = 0 /\ lzss.flt.w = 0)

\* The same for input_filtered::realPopulate alone.
PopulateCompletionProtocol ==
  (lzss.kind = "drivers" /\ lzss.phase = "done"
   /\ lzss.driver = "input_filtered")
    => (lzss.flt.r = 0 /\ lzss.flt.w = 0)

\* A driver has stopped while the decompressor still had bytes of a
\* reference to copy out.
TransformCompletionWitness ==
  /\ lzss.kind = "drivers" /\ lzss.phase = "done"
  /\ lzss.filter = "decompress" /\ lzss.flt.lzssLength > 0

----------------------------------------------------------------------------
(* SpecPass: each of the four codecs run through a whole pass by the loop   *)
(* of input_filtered::realPopulate.  A run is an LZSS round trip, the       *)
(* decompression of a token stream, or an LZW round trip, with the steps of *)
(* SpecLzss and SpecLzw; the variable of the other codec holds NoPass.      *)
(* hist counts the transform calls made so far.  The loop goes on to the    *)
(* next call whenever the last one did not end the pass, so a step is       *)
(* enabled in every state where the pass has not ended, and every step      *)
(* raises the count: a pass whose count stays below MaxCalls has ended.     *)

NoPass == [phase |-> "none", populated |-> FALSE]

\* Strings of one repeated byte, the longest filling several buffers.
PassLzwStrings ==
  { [i \in 1 .. n |-> 97] : n \in {0, 1, MaxLen, MaxLen * LzwBufSize} }

PassInit ==
  /\ \/ /\ \E e \in {littleEndian, bigEndian}, junk \in WindowJunk :
             \/ \E s \in LzssStrings, sizes \in LzssSizes :
                  lzss = LzssStart("roundtrip", "compress", e, sizes, junk, s,
                                   <<>>, <<>>)
             \/ \E toks \in TokenStreams :
                  lzss = LzssStart("tokens", "decompress", e, <<2, 2>>, junk,
                                   <<>>, toks, EncodeTokens(e, toks, 2, 2))
        /\ lzw = NoPass
     \/ /\ \E cfg \in LzwConfigs, s \in PassLzwStrings, junk \in LzwJunk :
             lzw = [phase |-> "compress", cfg |-> cfg, src |-> s, comp |-> <<>>,
                    enc |-> NewLzwCompress(cfg, junk),
                    dec |-> NewLzwDecompress(cfg, junk),
                    drv |-> LzwDriver, populated |-> FALSE]
        /\ lzss = NoPass
  /\ hist = [calls |-> 0]
  /\ bit = Idle /\ dict = Idle /\ seg = Idle

\* The loop enters one more iteration, which calls transform once.
PassCall ==
  /\ hist.calls < MaxCalls
  /\ hist' = [calls |-> hist.calls + 1]

\* The compressor's pass has ended and the decompressor's begins: its calls
\* are counted from zero.
PassBegin ==
  hist' = [calls |-> 0]

PassLzssCompress ==
  /\ lzss.phase = "compress" /\ lzss.populated /\ lzss.enc.err = ""
  /\ LzssCompressIter(LzssCompressTransform(lzss.enc, BufIn(lzss.drv, lzss.src),
                                            BUFFER_SIZE))
  /\ PassCall
  /\ UNCHANGED <<bit, lzw, dict, seg>>

PassLzssDecompress(lenOut) ==
  /\ lzss.phase = "decompress" /\ lzss.populated /\ lzss.dec.err = ""
  /\ LzssDecompressIter(LzssDecompressTransform(lzss.dec,
                                                BufIn(lzss.drv, lzss.comp),
                                                lenOut))
  /\ PassCall
  /\ UNCHANGED <<bit, lzw, dict, seg>>

PassLzwCompress ==
  /\ lzw.phase = "compress" /\ lzw.populated /\ lzw.enc.err = ""
  /\ LzwCompressIter(LzwCompressTransform(lzw.enc, BufIn(lzw.drv, lzw.src),
                                          lzw.drv.size))
  /\ PassCall
  /\ UNCHANGED <<bit, lzss, dict, seg>>

PassLzwDecompress ==
  /\ lzw.phase = "decompress" /\ lzw.populated /\ lzw.dec.err = ""
  /\ LzwDecompressIter(LzwDecompressTransform(lzw.dec,
                                              BufIn(lzw.drv, lzw.comp),
                                              lzw.drv.size))
  /\ PassCall
  /\ UNCHANGED <<bit, lzss, dict, seg>>

PassLzssReset ==
  /\ \/ lzss.phase = "compress" /\ ~lzss.populated
        /\ lzss' = [lzss EXCEPT !.populated = TRUE,
                                !.enc = LzssCompressReset(lzss.enc)]
     \/ lzss.phase = "decompress" /\ ~lzss.populated
        /\ lzss' = [lzss EXCEPT !.populated = TRUE,
                                !.dec = LzssDecompressReset(lzss.dec)]
  /\ PassBegin
  /\ UNCHANGED <<bit, lzw, dict, seg>>

PassLzwReset ==
  /\ \/ lzw.phase = "compress" /\ ~lzw.populated
        /\ lzw' = [lzw EXCEPT !.populated = TRUE,
                              !.enc = LzwCompressReset(lzw.enc)]
     \/ lzw.phase = "decompress" /\ ~lzw.populated
        /\ lzw' = [lzw EXCEPT !.populated = TRUE,
                              !.dec = LzwDecompressReset(lzw.dec)]
  /\ PassBegin
  /\ UNCHANGED <<bit, lzss, dict, seg>>

PassNext ==
  \/ PassLzssReset
  \/ PassLzssCompress
  \/ \E lenOut \in OutCaps : PassLzssDecompress(lenOut)
  \/ PassLzwReset
  \/ PassLzwCompress
  \/ PassLzwDecompress

SpecPass == PassInit /\ [][PassNext]_vars

\* The driver's loop has ended: a call returned lenIn == 0 and lenOut == 0,
\* or raised.
PassEnded ==
  /\ lzss.phase \in {"done", "failed", "none"}
  /\ lzw.phase \in {"done", "failed", "none"}

----------------------------------------------------------------------------
(* SpecLzssParts: the LZSS decompressor fed the same token stream in        *)
(* buffers of different lengths.  input_filtered::realPopulate hands        *)
(* transform what try_read delivered, so a long input, or a parent that     *)
(* delivers less than was asked for, is cut wherever a buffer ends.         *)

\* input_filtered::realPopulate run to its end around the decompressor dec
\* on the input parent, d being the driver before a call: the filter and
\* the driver as the loop leaves them.
RECURSIVE LzssPopulate(_, _, _)
LzssPopulated(t, d, parent, bufIn) ==
  LzssPopulate(t, AfterTransform(d, t, bufIn), parent)

LzssPopulateCall(dec, d, parent, bufIn) ==
  LzssPopulated(LzssDecompressTransform(dec, bufIn, d.size), d, parent, bufIn)

LzssPopulate(dec, d, parent) ==
  IF d.done \/ dec.err # "" THEN [flt |-> dec, drv |-> d]
  ELSE LzssPopulateCall(dec, d, parent, BufIn(d, parent))

\* What the decompressor outputs when the whole input is in one buffer.
LzssUnpartitioned(l) ==
  LzssPopulate(LzssDecompressReset(l.dec), NewDriver, l.comp).drv.data

PartSizes == {1, DrvBufSize, BUFFER_SIZE}

\* Field widths <<sizeLength, sizeDistance>>: all fields within a byte, and
\* a length field wider than a byte.
PartFields == { <<2, 2>>, <<9, 2>> }

PartInit ==
  /\ \E e \in {littleEndian, bigEndian}, junk \in WindowJunk,
        toks \in TokenStreams, size \in PartSizes, f \in PartFields :
       lzss = [LzssStart("parts", "decompress", e, f, junk, <<>>, toks,
                         EncodeTokens(e, toks, f[1], f[2]))
                 EXCEPT !.drv = [NewDriver EXCEPT !.size = size]]
  /\ bit = Idle /\ hist = Idle /\ lzw = Idle /\ dict = Idle /\ seg = Idle

PartNext ==
  \/ LzssDecompressBegin
  \/ \E lenOut \in OutCaps : LzssDecompressStep(lenOut)

SpecLzssParts == PartInit /\ [][PartNext]_vars

\* C15 (LZSS decompressor carry-over): when a pass has ended, the bytes the
\* decompressor has output are the same however the input was partitioned
\* into transform calls and whatever the output capacities were: they are
\* the bytes it outputs when the whole input is in one buffer.
LzssCarryOver ==
  (lzss.kind = "parts" /\ lzss.phase = "done")
    => lzss.drv.data = LzssUnpartitioned(lzss)

\* A pass over an input cut into buffers shorter than the input has ended.
LzssCarryOverWitness ==
  /\ lzss.kind = "parts" /\ lzss.phase = "done"
  /\ lzss.drv.size < Len(lzss.comp)
  /\ lzss.drv.data # LzssUnpartitioned(lzss)

----------------------------------------------------------------------------
(* SpecLzwReuse: one filter_lzw_compress and one filter_lzw_decompress      *)
(* instance used for two passes over the same input.  The first pass of     *)
(* each is the pass of a newly constructed instance that was reset once;    *)
(* what it produced is kept in lzw.first.  The second pass begins with      *)
(* reset() as well, through the same loop of input_filtered::realPopulate.  *)

ReuseInit ==
  /\ \E cfg \in LzwConfigs, junk \in LzwJunk,
        s \in {x \in LzwStrings : Len(x) <= MaxLen} :
       lzw = [phase |-> "compress", cfg |-> cfg, src |-> s, comp |-> <<>>,
              enc |-> NewLzwCompress(cfg, junk),
              dec |-> NewLzwDecompress(cfg, junk),
              drv |-> LzwDriver, populated |-> FALSE,
              pass |-> 1, first |-> [comp |-> <<>>, data |-> <<>>]]
  /\ bit = Idle /\ hist = Idle /\ lzss = Idle /\ dict = Idle /\ seg = Idle

\* Both instances are handed to new filtered streams over the same input.
LzwReuse ==
  /\ lzw.phase = "done" /\ lzw.pass = 1
  /\ lzw' = [lzw EXCEPT !.phase = "compress", !.populated = FALSE,
                        !.drv = LzwDriver, !.comp = <<>>, !.pass = 2,
                        !.first = [comp |-> lzw.comp, data |-> lzw.drv.data]]
  /\ UNCHANGED <<bit, hist, lzss, dict, seg>>

ReuseNext ==
  \/ LzwCompressBegin
  \/ LzwCompressStep
  \/ LzwDecompressBegin
  \/ LzwDecompressStep
  \/ LzwReuse

SpecLzwReuse == ReuseInit /\ [][ReuseNext]_vars

\* The reused compressor has produced what it produced as a new instance.
LzwCompressReuse ==
  (lzw.pass = 2 /\ lzw.phase \in {"decompress", "done"})
    => lzw.comp = lzw.first.comp

\* C16 (LZW reset for reuse): after reset() a used filter_lzw_compress or
\* filter_lzw_decompress instance produces for the same input the output
\* that it produced as a newly constructed instance that was reset once.
LzwResetForReuse ==
  /\ LzwCompressReuse
  /\ (lzw.pass = 2 /\ lzw.phase = "done") => lzw.drv.data = lzw.first.data

\* The second pass of the decompressor has ended, the first having ended
\* at the EOF codeword and output data.
LzwResetForReuseWitness ==
  /\ lzw.pass = 2 /\ lzw.phase = "done"
  /\ "LZW_EOF_PARAM_VALID" \in lzw.cfg.flags
  /\ lzw.dec.code = lzw.dec.curEOFCode
  /\ lzw.first.data # <<>>

----------------------------------------------------------------------------
(* SpecLzssWindow: two filter_lzss_decompress instances of the same         *)
(* configuration.  Each is used for two passes of                           *)
(* input_filtered::realPopulate: a first pass over an input of its own and  *)
(* a second pass over an input that both are given.                         *)

\* First inputs: they decode to different data.
WindowFirst ==
  { <<Lit(65), Lit(66)>>,
    Lits(3) \o <<Ref(3, 0), Lit(90)>>,
    Lits(3) \o <<Ref(0, 2), Lit(90)>> }

\* Second inputs: a reference that reaches before the first byte of the
\* pass, one that reaches before it after a literal, and one that stays
\* within the pass.
WindowSecond ==
  { <<Ref(0, 0), Lit(66), Lit(67)>>,
    <<Lit(66), Ref(1, 1), Lit(67)>>,
    <<Lit(66), Ref(1, 0), Lit(67)>> }

WindowInstance(endian, junk) ==
  [dec |-> NewLzssDecompress(endian, 2, 2, junk), pass |-> 0, out |-> <<>>]

WindowInit ==
  /\ \E e \in {littleEndian, bigEndian}, junk \in WindowJunk,
        fa \in WindowFirst, fb \in WindowFirst, sec \in WindowSecond :
       lzss = [kind |-> "window", phase |-> "run",
               first |-> [a |-> EncodeTokens(e, fa, 2, 2),
                          b |-> EncodeTokens(e, fb, 2, 2)],
               second |-> EncodeTokens(e, sec, 2, 2),
               tokens |-> sec,
               inst |-> [a |-> WindowInstance(e, junk),
                         b |-> WindowInstance(e, junk)]]
  /\ bit = Idle /\ hist = Idle /\ lzw = Idle /\ dict = Idle /\ seg = Idle

\* The instance after a pass that left the filter and the driver as in p.
WindowPassed(x, p) ==
  [dec |-> p.flt, pass |-> x.pass + 1, out |-> p.drv.data]

\* A whole pass of realPopulate around instance i: its first input, or the
\* common second input.
WindowPass(i) ==
  /\ lzss.phase = "run" /\ lzss.inst[i].pass < 2
  /\ lzss' = [lzss EXCEPT !.inst[i] =
       WindowPassed(lzss.inst[i],
                    LzssPopulate(LzssDecompressReset(lzss.inst[i].dec),
                                 NewDriver,
                                 IF lzss.inst[i].pass = 0 THEN lzss.first[i]
                                 ELSE lzss.second))]
  /\ UNCHANGED <<bit, hist, lzw, dict, seg>>

WindowNext == \E i \in {"a", "b"} : WindowPass(i)

SpecLzssWindow == WindowInit /\ [][WindowNext]_vars

\* C17 (LZSS window reset): two decompressor instances that were given the
\* same input after reset() have produced the same output, whatever their
\* earlier passes decoded.
LzssWindowReset ==
  (lzss.kind = "window" /\ lzss.inst.a.pass = 2 /\ lzss.inst.b.pass = 2)
    => lzss.inst.a.out = lzss.inst.b.out

\* Both instances have finished the second pass after first passes over
\* different inputs, the second input beginning with a reference.
LzssWindowResetWitness ==
  /\ lzss.kind = "window" /\ lzss.inst.a.pass = 2 /\ lzss.inst.b.pass = 2
  /\ lzss.first.a # lzss.first.b
  /\ lzss.tokens[1].ref
  /\ lzss.inst.a.out # <<>>

----------------------------------------------------------------------------
(* SpecLzwFull: the round trip of SpecLzw over inputs long enough to fill   *)
(* the dictionary, with maxBits low enough for 2^maxBits entries to be      *)
(* reached: two configurations that leave the full dictionary as it is and  *)
(* two with LZW_RESET_FULL_DICT.                                            *)

FullConfigs ==
  { LzwConfig(9, 10, 256, 0, 0, {}),
    LzwConfig(9, 9, 257, 256, 0, {"LZW_BIG_ENDIAN", "LZW_EOF_PARAM_VALID"}),
    LzwConfig(9, 10, 256, 0, 0, {"LZW_RESET_FULL_DICT"}),
    LzwConfig(9, 10, 256, 0, 0, {"LZW_EOF_PARAM_VALID", "LZW_RESET_FULL_DICT"}) }

\* The strings of SpecLzw and one that ends just before the codeword at
\* which a dictionary of 2^10 entries is full.
FullStrings == LzwStrings \cup { [i \in 1 .. MaxLzwLen - 3 |-> 97] }

FullInit ==
  /\ \E cfg \in FullConfigs, s \in FullStrings :
       lzw = [phase |-> "compress", cfg |-> cfg, src |-> s, comp |-> <<>>,
              enc |-> NewLzwCompress(cfg, 0),
              dec |-> NewLzwDecompress(cfg, 0),
              drv |-> LzwDriver, populated |-> FALSE]
  /\ bit = Idle /\ hist = Idle /\ lzss = Idle /\ dict = Idle /\ seg = Idle

SpecLzwFull == FullInit /\ [][LzwNext]_vars

\* The dictionary holds every entry that 2^maxBits codewords can name, less
\* the reserved ones.
LzwDictionaryFull(t) ==
  t.currentBits = t.maxBits /\ t.dictionary.newCodeStringIndex > t.maxCode

\* C18 (LZW dictionary overflow policy): the decoder's dictionary never
\* holds more than 2^maxBits entries and its codewords are never wider than
\* maxBits; without LZW_RESET_FULL_DICT a full dictionary stays full at
\* maxBits, with it the decoder is back at the roots (and at initialBits)
\* after the codeword that filled the dictionary; and both policies are
\* applied where the encoder applied them: the decompressed bytes are the
\* bytes compressed.
LzwOverflowPolicy ==
  /\ lzw.phase # "failed"
  /\ (lzw.phase \in {"decompress", "done"} /\ lzw.populated)
       => /\ lzw.dec.currentBits <= lzw.dec.maxBits
          /\ lzw.dec.dictionary.newCodeStringIndex <= Pow2(lzw.dec.maxBits)
          /\ "LZW_RESET_FULL_DICT" \in lzw.dec.flags
               => ~LzwDictionaryFull(lzw.dec)
  /\ lzw.phase = "done" => lzw.drv.data = lzw.src

\* A round trip has ended whose input filled the decoder's dictionary.
LzwOverflowPolicyWitness ==
  /\ lzw.phase = "done" /\ Len(lzw.src) = MaxLzwLen
  /\ "LZW_RESET_FULL_DICT" \in lzw.dec.flags
  /\ lzw.dec.currentBits < lzw.dec.maxBits

\* The same where the full dictionary is left as it is.
LzwFrozenWitness ==
  /\ lzw.phase = "done" /\ LzwDictionaryFull(lzw.dec)
  /\ lzw.drv.data = lzw.src

----------------------------------------------------------------------------
(* SpecLzwWidth: the compressor's output for a long input decompressed one  *)
(* codeword per transform call, so that the width before and after every    *)
(* codeword is a pair of successive states.                                 *)

WidthStrings == { [i \in 1 .. n |-> 97] : n \in {MaxLen, MaxLzwLen} }

\* The configurations of SpecLzw in which the dictionary is never reset.
WidthConfigs ==
  { c \in LzwConfigs : c.flags \cap {"LZW_NO_BITSIZE_RESET", "LZW_RESET_FULL_DICT"} = {} }

WidthInit ==
  /\ \E cfg \in WidthConfigs, s \in WidthStrings :
       lzw = [phase |-> "compress", cfg |-> cfg, src |-> s, comp |-> <<>>,
              enc |-> NewLzwCompress(cfg, 0),
              dec |-> NewLzwDecompress(cfg, 0),
              drv |-> LzwDriver, populated |-> FALSE]
  /\ hist = NoCall
  /\ bit = Idle /\ lzss = Idle /\ dict = Idle /\ seg = Idle

WidthNext ==
  \/ LzwCompressBegin
  \/ LzwCompressStep
  \/ DecodeBegin
  \/ DecodeStep

SpecLzwWidth == WidthInit /\ [][WidthNext]_vars

\* The codewords below 2^bits - 1 that are reserved: one for each of EOF and
\* reset that is valid and given as a value <= 0.
RelativeReserved(t) ==
  Cardinality({ x \in {<<"LZW_EOF_PARAM_VALID", t.eofCode>>,
                       <<"LZW_RESET_PARAM_VALID", t.resetCode>>} :
                  x[1] \in t.flags /\ x[2] <= 0 })

\* dictionary.size() after the codeword was decoded from the state pre.
SizeDecoded(pre) ==
  IF pre.dictionary.newCodeStringIndex < pre.dictionary.tableSize
  THEN pre.dictionary.newCodeStringIndex + 1
  ELSE pre.dictionary.newCodeStringIndex

\* The step decoded a codeword through the dictionary.
CodewordDecoded ==
  /\ lzw.phase = "decompress" /\ lzw.populated
  /\ hist'.called /\ hist'.err = ""
  /\ ~("LZW_RESET_PARAM_VALID" \in lzw.dec.flags
       /\ hist'.code = lzw.dec.curResetCode)

WidthStep ==
  CodewordDecoded =>
    IF /\ SizeDecoded(lzw.dec)
            > (Pow2(lzw.dec.currentBits) - 1) - RelativeReserved(lzw.dec)
       /\ lzw.dec.currentBits < lzw.dec.maxBits
    THEN lzw'.dec.currentBits = lzw.dec.currentBits + 1
    ELSE lzw'.dec.currentBits <= lzw.dec.currentBits

WidthInRange ==
  (lzw.phase # "compress" /\ lzw.populated)
    => /\ lzw.dec.initialBits <= lzw.dec.currentBits
       /\ lzw.dec.currentBits <= lzw.dec.maxBits

----------------------------------------------------------------------------
(* SpecLzwCodes: configurations whose EOF and reset codewords are given     *)
(* relative to the largest codeword of the current width.  A byte string is *)
(* compressed and the result decompressed one codeword per transform call,  *)
(* or the decompressor is fed a short codeword stream holding the reserved  *)
(* codewords; then the same two filters are used for a second pass.         *)

RelativeConfigs ==
  { LzwConfig(9, 10, 256, 0, -1, {"LZW_BIG_ENDIAN", "LZW_EOF_PARAM_VALID",
                                  "LZW_RESET_PARAM_VALID"}),
    LzwConfig(9, 10, 256, -1, 0, {"LZW_EOF_PARAM_VALID", "LZW_RESET_FULL_DICT"}) }

\* A byte value, the reset codeword and the EOF codeword of the first
\* configuration at 9 bits.
RelativeCodes == {97, 510, 511}

CodesItem(cfg, phase, src, comp) ==
  [phase |-> phase, cfg |-> cfg, src |-> src, comp |-> comp,
   enc |-> NewLzwCompress(cfg, 0), dec |-> NewLzwDecompress(cfg, 0),
   drv |-> LzwDriver, populated |-> FALSE,
   pass |-> 1, first |-> [comp |-> <<>>, data |-> <<>>]]

CodesInit ==
  /\ \/ \E cfg \in RelativeConfigs, s \in WidthStrings :
          lzw = CodesItem(cfg, "compress", s, <<>>)
     \/ \E cfg \in { c \in RelativeConfigs : "LZW_RESET_PARAM_VALID" \in c.flags } :
          \E codes \in CodeStreams(RelativeCodes) :
            lzw = CodesItem(cfg, "decompress", <<>>,
                            EncodeCodes(bigEndian, cfg.initialBits, codes))
  /\ hist = NoCall
  /\ bit = Idle /\ lzss = Idle /\ dict = Idle /\ seg = Idle

CodesNext ==
  \/ LzwCompressBegin
  \/ LzwCompressStep
  \/ DecodeBegin
  \/ DecodeStep
  \/ LzwReuse

SpecLzwCodes == CodesInit /\ [][CodesNext]_vars

\* The reserved codewords of the filter t that are given relative to the
\* width are what the width makes them.
RelativeCodesCurrent(t) ==
  /\ ("LZW_EOF_PARAM_VALID" \in t.flags /\ t.eofCode <= 0)
       => t.curEOFCode = (Pow2(t.currentBits) - 1) + t.eofCode
  /\ ("LZW_RESET_PARAM_VALID" \in t.flags /\ t.resetCode <= 0)
       => t.curResetCode = (Pow2(t.currentBits) - 1) + t.resetCode

\* The compressor has not written the EOF codeword in this pass: it has
\* written nothing yet or has input left.
EofNotWritten ==
  lzw.drv.data = <<>> \/ BufIn(lzw.drv, lzw.src) # <<>>

\* C20 (LZW relative reserved codewords): with the EOF or reset codeword
\* given as a value v <= 0 and its VALID flag set, wherever the decompressor
\* is about to read a codeword, and wherever the compressor is about to
\* write one before it has written EOF, the effective codeword is
\* (2^currentBits - 1) + v for the width of that moment.
LzwRelativeCodes ==
  /\ (lzw.phase \in {"decompress", "done"} /\ lzw.populated)
       => RelativeCodesCurrent(lzw.dec)
  /\ (lzw.phase = "compress" /\ lzw.populated /\ EofNotWritten)
       => RelativeCodesCurrent(lzw.enc)

\* The decompressor is at a width above initialBits, with a relative
\* reserved codeword, after a call that decoded a codeword.
LzwRelativeCodesWitness ==
  /\ lzw.phase = "decompress" /\ lzw.populated /\ hist.called
  /\ lzw.dec.currentBits > lzw.dec.initialBits
  /\ "LZW_EOF_PARAM_VALID" \in lzw.dec.flags /\ lzw.dec.eofCode <= 0
  /\ lzw.dec.curEOFCode > Pow2(lzw.dec.initialBits)

----------------------------------------------------------------------------
(* The first codeword after a (re)initialisation, in the runs of            *)
(* SpecLzwCodes: after reset(), after a reset codeword and after the reset  *)
(* of a full dictionary.                                                    *)

\* C21 (LZW first codeword after (re)initialisation): a codeword other than
\* EOF read while the dictionary has just been reset is emitted as one byte,
\* the codeword itself where it is a byte value, becomes oldCode, and leaves
\* the dictionary as it was: no entry is inserted.
LzwFirstCodeword ==
  (lzw.phase \in {"decompress", "done"} /\ hist.first /\ hist.err = "")
    => /\ Len(hist.emitted) = 1
       /\ hist.emitted[1] = hist.code % 256
       /\ lzw.dec.oldCode = hist.code
       /\ hist.sizeAfter = hist.size
       /\ hist.after = hist.before
       /\ ~lzw.dec.isDictReset

\* The call read a first codeword although the pass had produced output
\* before it: the dictionary had been reset in the middle of the stream.
LzwFirstCodewordWitness ==
  /\ lzw.phase = "decompress" /\ hist.first
  /\ Len(lzw.drv.data) >= 2
  /\ hist.code = 97

----------------------------------------------------------------------------
(* SpecLzwReset: filter_lzw_decompress with a relative reset codeword, fed  *)
(* codeword streams that hold it, under every combination of                *)
(* LZW_NO_BITSIZE_RESET and LZW_FLUSH_ON_RESET and both bit orders.  The    *)
(* caller's buffers are so small that a call reads one codeword: transform  *)
(* goes on reading only while r + LZW_LEFTOVER_BYTES < *lenIn.              *)

OneCodewordBuf == LZW_LEFTOVER_BYTES + 1

ResetConfigs ==
  { LzwConfig(9, 10, 256, 0, -1,
              {"LZW_EOF_PARAM_VALID", "LZW_RESET_PARAM_VALID"} \cup e \cup f)
      : e \in {{}, {"LZW_BIG_ENDIAN"}},
        f \in SUBSET {"LZW_NO_BITSIZE_RESET", "LZW_FLUSH_ON_RESET"} }

ResetEndian(cfg) ==
  IF "LZW_BIG_ENDIAN" \in cfg.flags THEN bigEndian ELSE littleEndian

\* Bit b of a stream of n1 codewords c1 of w1 bits followed by the codewords
\* tail of w2 bits each, in the order the bits are read; 0 past its end.
TwoWidthBit(endian, w1, n1, c1, w2, tail, b) ==
  IF b < w1 * n1
  THEN IF endian = bigEndian
       THEN (c1 \div Pow2((w1 - 1) - (b % w1))) % 2
       ELSE (c1 \div Pow2(b % w1)) % 2
  ELSE IF b - w1 * n1 < w2 * Len(tail)
  THEN IF endian = bigEndian
       THEN (tail[((b - w1 * n1) \div w2) + 1]
               \div Pow2((w2 - 1) - ((b - w1 * n1) % w2))) % 2
       ELSE (tail[((b - w1 * n1) \div w2) + 1] \div Pow2((b - w1 * n1) % w2)) % 2
  ELSE 0

\* Byte j (from 0) of that stream: a big-endian stream fills a byte from its
\* top bit, a little-endian one from its bottom bit.
TwoWidthByte(endian, w1, n1, c1, w2, tail, j) ==
  IF endian = bigEndian
  THEN   TwoWidthBit(endian, w1, n1, c1, w2, tail, 8 * j) * 128
       + TwoWidthBit(endian, w1, n1, c1, w2, tail, 8 * j + 1) * 64
       + TwoWidthBit(endian, w1, n1, c1, w2, tail, 8 * j + 2) * 32
       + TwoWidthBit(endian, w1, n1, c1, w2, tail, 8 * j + 3) * 16
       + TwoWidthBit(endian, w1, n1, c1, w2, tail, 8 * j + 4) * 8
       + TwoWidthBit(endian, w1, n1, c1, w2, tail, 8 * j + 5) * 4
       + TwoWidthBit(endian, w1, n1, c1, w2, tail, 8 * j + 6) * 2
       + TwoWidthBit(endian, w1, n1, c1, w2, tail, 8 * j + 7)
  ELSE   TwoWidthBit(endian, w1, n1, c1, w2, tail, 8 * j)
       + TwoWidthBit(endian, w1, n1, c1, w2, tail, 8 * j + 1) * 2
       + TwoWidthBit(endian, w1, n1, c1, w2, tail, 8 * j + 2) * 4
       + TwoWidthBit(endian, w1, n1, c1, w2, tail, 8 * j + 3) * 8
       + TwoWidthBit(endian, w1, n1, c1, w2, tail, 8 * j + 4) * 16
       + TwoWidthBit(endian, w1, n1, c1, w2, tail, 8 * j + 5) * 32
       + TwoWidthBit(endian, w1, n1, c1, w2, tail, 8 * j + 6) * 64
       + TwoWidthBit(endian, w1, n1, c1, w2, tail, 8 * j + 7) * 128

\* The stream as bytes, with pad bytes of zeros after the last codeword.
TwoWidthStream(endian, w1, n1, c1, w2, tail, pad) ==
  [j \in 1 .. ((w1 * n1 + w2 * Len(tail) + 7) \div 8) + pad |->
     TwoWidthByte(endian, w1, n1, c1, w2, tail, j - 1)]

\* The codewords read with initialBits before a decompressor with two
\* relative reserved codewords widens them: the first one, which adds no
\* entry, and one for each entry from firstCode to maxCode =
\* 2^initialBits - 3.
NarrowCodes(cfg) == (Pow2(cfg.initialBits) - 1) - cfg.firstCode

\* The streams of a configuration: up to MaxCodes codewords of initialBits
\* bits from a byte value, the reset codeword and the EOF codeword; and a
\* stream that repeats a byte value until the codewords are one bit wider,
\* then holds the reset codeword of that width and two byte values.
ResetStreams(cfg) ==
  { TwoWidthStream(ResetEndian(cfg), cfg.initialBits, 0, 0,
                   cfg.initialBits, codes, OneCodewordBuf)
      : codes \in CodeStreams({97, Pow2(cfg.initialBits) - 2,
                               Pow2(cfg.initialBits) - 1}) }
  \cup
  { TwoWidthStream(ResetEndian(cfg), cfg.initialBits, NarrowCodes(cfg), 97,
                   cfg.initialBits + 1,
                   <<Pow2(cfg.initialBits + 1) - 2, 98, 99>>, OneCodewordBuf) }

ResetInit ==
  /\ \E cfg \in ResetConfigs :
       \E comp \in ResetStreams(cfg) :
         lzw = [phase |-> "decompress", cfg |-> cfg, comp |-> comp,
                dec |-> NewLzwDecompress(cfg, 0),
                drv |-> [NewDriver EXCEPT !.size = OneCodewordBuf],
                populated |-> FALSE]
  /\ hist = NoCall
  /\ bit = Idle /\ lzss = Idle /\ dict = Idle /\ seg = Idle

SpecLzwReset == ResetInit /\ [][DecodeNext]_vars

\* The step read the reset codeword, and not as the first codeword after a
\* reset.
ResetCodewordRead ==
  /\ lzw.phase = "decompress" /\ lzw.populated
  /\ hist'.called /\ hist'.err = ""
  /\ hist'.code = lzw.dec.curResetCode

ResetCodewordStep ==
  ResetCodewordRead =>
    /\ hist'.emitted = <<>>
    /\ hist'.after = hist'.before
    /\ hist'.sizeAfter = lzw.cfg.firstCode
    /\ lzw'.dec.isDictReset
    /\ lzw'.dec.currentBits = IF "LZW_NO_BITSIZE_RESET" \in lzw.cfg.flags
                              THEN lzw.dec.currentBits
                              ELSE lzw.cfg.initialBits

\* The first bits codeword bits of the bytes b, which begin at a byte
\* boundary.
AlignedCodeword(endian, bits, b) ==
  IF endian = bigEndian
  THEN (b[1] * 256 + b[2]) \div Pow2(16 - bits)
  ELSE (b[1] + b[2] * 256) % Pow2(bits)

\* The call before this step read the reset codeword and this step reads
\* the codeword after it.
AfterResetCodeword ==
  /\ lzw.phase = "decompress" /\ lzw.populated
  /\ hist.called /\ hist.err = "" /\ lzw.dec.isDictReset
  /\ hist'.first
  /\ Len(BufIn(lzw.drv, lzw.comp)) >= 2

FlushOnResetStep ==
  (AfterResetCodeword /\ "LZW_FLUSH_ON_RESET" \in lzw.cfg.flags)
    => hist'.code = AlignedCodeword(ResetEndian(lzw.cfg), lzw.dec.currentBits,
                                    BufIn(lzw.drv, lzw.comp))

\* C22 (LZW reset codeword): a reset codeword read by the decompressor,
\* other than as the first codeword after a reset, emits no byte and inserts
\* no entry, takes the dictionary size back to firstCode and currentBits
\* back to initialBits, or leaves currentBits alone with
\* LZW_NO_BITSIZE_RESET; with LZW_FLUSH_ON_RESET the codeword after it is
\* read from the start of the next input byte.
LzwResetCodeword == [][ResetCodewordStep]_vars /\ [][FlushOnResetStep]_vars

\* The reset codeword has just been read at a width above initialBits, with
\* LZW_FLUSH_ON_RESET, and the width is back at initialBits.
LzwResetCodewordWitness ==
  /\ lzw.phase = "decompress" /\ hist.called /\ lzw.dec.isDictReset
  /\ hist.code = Pow2(lzw.cfg.initialBits + 1) - 2
  /\ "LZW_FLUSH_ON_RESET" \in lzw.cfg.flags
  /\ lzw.dec.currentBits = lzw.cfg.initialBits

----------------------------------------------------------------------------
(* The EOF codeword in the streams of SpecLzwReset, which hold it at every  *)
(* place, with codewords and bytes after it.                                *)

\* The last codeword the decompressor read is its EOF codeword and what was
\* decoded before it has been delivered.
EofRead ==
  /\ lzw.phase = "decompress" /\ lzw.populated
  /\ "LZW_EOF_PARAM_VALID" \in lzw.dec.flags
  /\ lzw.dec.code = lzw.dec.curEOFCode
  /\ lzw.dec.buffer = <<>>

EofStopStep ==
  EofRead =>
    /\ lzw'.drv.data = lzw.drv.data
    /\ BufIn(lzw'.drv, lzw.comp) = BufIn(lzw.drv, lzw.comp)
    /\ BsOf(lzw'.dec) = BsOf(lzw.dec)
    /\ lzw'.dec.code = lzw.dec.code
    /\ lzw'.dec.dictionary = lzw.dec.dictionary
    /\ lzw'.phase # "failed"

\* C23 (LZW EOF codeword stops decoding): once the decompressor has read the
\* EOF codeword, a later transform call of the pass consumes no input and
\* produces no output, the bytes decoded before having been delivered, and
\* decodes nothing: the output, the unread input, the bit position, the
\* dictionary and the codeword held stay as they are.
LzwEofStops == [][EofStopStep]_vars

\* A pass has ended on an EOF codeword with output before it and unread
\* input after it.
LzwEofStopsWitness ==
  /\ lzw.phase = "done"
  /\ "LZW_EOF_PARAM_VALID" \in lzw.dec.flags
  /\ lzw.dec.code = lzw.dec.curEOFCode
  /\ lzw.drv.data # <<>>
  /\ BufIn(lzw.drv, lzw.comp) # <<>>

----------------------------------------------------------------------------
(* SpecLzwEnd: filter_lzw_compress driven by realPopulate to the end of the *)
(* pass, with buffers that hold one codeword per call and with buffers of   *)
(* LzwBufSize bytes.                                                        *)

\* The configurations of SpecLzw, the one of lzw_comp_end_write_midbyte and
\* one with an EOF codeword relative to the codeword width.
EndConfigs ==
  LzwConfigs \cup
  { LzwConfig(9, 12, 257, 256, 0, {"LZW_BIG_ENDIAN", "LZW_EOF_PARAM_VALID"}),
    LzwConfig(9, 10, 256, 0, -1, {"LZW_EOF_PARAM_VALID",
                                  "LZW_RESET_PARAM_VALID"}) }

\* A length at which the codewords of a pass that began at 9 bits have become
\* 10 bits wide.
WidenLen == 258

EndStrings ==
  LzwStrings \cup {<<0>>, <<255, 0>>, <<1, 128, 255>>}
    \cup {[i \in 1 .. WidenLen |-> 97]}

EndSizes == {OneCodewordBuf, LzwBufSize}

EndInit ==
  /\ \E cfg \in EndConfigs, s \in EndStrings, size \in EndSizes :
       lzw = [phase |-> "compress", cfg |-> cfg, src |-> s, comp |-> <<>>,
              enc |-> NewLzwCompress(cfg, 0),
              dec |-> NewLzwDecompress(cfg, 0),
              drv |-> [NewDriver EXCEPT !.size = size], populated |-> FALSE]
  /\ bit = Idle /\ hist = Idle /\ lzss = Idle /\ dict = Idle /\ seg = Idle

EndNext == LzwCompressBegin \/ LzwCompressStep

SpecLzwEnd == EndInit /\ [][EndNext]_vars

\* The bits of a byte sequence in the given bit order.
BitsOf(endian, bytes) ==
  [k \in 1 .. 8 * Len(bytes) |-> MediumBit(endian, bytes, k - 1)]

\* The bits of the width-bit codeword v in the order they are emitted.
CodeBits(endian, width, v) ==
  [i \in 1 .. width |-> EmittedBit(endian, width, v, i - 1)]

\* b followed by zero bits up to a byte boundary.
ZeroPadded(b) == b \o [i \in 1 .. ((8 - (Len(b) % 8)) % 8) |-> 0]

\* The bits written that the compressor has not handed out yet.
PendingBits(t) ==
  IF t.origBufByte = INITIAL_VALUE THEN <<>>
  ELSE SubSeq(BitsOf(t.endianType, <<t.bufByte>>), 1, t.curBitPos)

\* The configured EOF codeword at the current codeword width.
ConfiguredEof(t) ==
  IF t.eofCode < 1 THEN (Pow2(t.currentBits) - 1) + t.eofCode ELSE t.eofCode

\* The EOF codeword still to be written, as bits.
EofBits(t) ==
  IF "LZW_EOF_PARAM_VALID" \in t.flags /\ t.curEOFCode > 0
  THEN CodeBits(t.endianType, t.currentBits, ConfiguredEof(t))
  ELSE <<>>

\* The bytes the pass has produced.
OutputOf(l) == IF l.phase = "compress" THEN l.drv.data ELSE l.comp

\* The bytes the step produces.
EndEmitted ==
  SubSeq(OutputOf(lzw'), Len(OutputOf(lzw)) + 1, Len(OutputOf(lzw')))

\* The input bytes the pass has not consumed.
EndRemaining(l) == Len(l.drv.leftover) + (Len(l.src) - l.drv.pos)

EndCall == lzw.phase = "compress" /\ lzw.populated

\* A call with input writes codewords for input bytes and no EOF codeword;
\* with room for one codeword it writes the next input byte at the current
\* width behind the bits written before.
EndCodewordStep ==
  (EndCall /\ EndRemaining(lzw) > 0)
    => /\ lzw'.phase = "compress"
       /\ SubSeq(OutputOf(lzw'), 1, Len(OutputOf(lzw))) = OutputOf(lzw)
       /\ EndRemaining(lzw') < EndRemaining(lzw)
       /\ "LZW_EOF_PARAM_VALID" \in lzw.cfg.flags
            => (lzw.enc.curEOFCode > 0 /\ lzw'.enc.curEOFCode > 0)
       /\ lzw.drv.size = OneCodewordBuf
            => /\ EndRemaining(lzw') = EndRemaining(lzw) - 1
               /\ BitsOf(lzw.enc.endianType, EndEmitted)
                    \o PendingBits(lzw'.enc)
                  = PendingBits(lzw.enc)
                      \o CodeBits(lzw.enc.endianType, lzw.enc.currentBits,
                                  BufIn(lzw.drv, lzw.src)[1])

\* A call without input writes the EOF codeword if it is configured and not
\* written yet, at the current width, and hands out the bytes up to the
\* zero-padded last one.
EndFinalStep ==
  (EndCall /\ EndRemaining(lzw) = 0)
    => /\ lzw'.phase \in {"compress", "decompress"}
       /\ SubSeq(OutputOf(lzw'), 1, Len(OutputOf(lzw))) = OutputOf(lzw)
       /\ BitsOf(lzw.enc.endianType, EndEmitted)
            = ZeroPadded(PendingBits(lzw.enc) \o EofBits(lzw.enc))
       /\ PendingBits(lzw'.enc) = <<>>
       /\ lzw'.enc.currentBits = lzw.enc.currentBits
       /\ "LZW_EOF_PARAM_VALID" \in lzw.cfg.flags => lzw'.enc.curEOFCode = 0

\* The pass is over with the EOF codeword written and no bits held back.
EndComplete ==
  lzw.phase = "decompress"
    => /\ PendingBits(lzw.enc) = <<>>
       /\ "LZW_EOF_PARAM_VALID" \in lzw.cfg.flags => lzw.enc.curEOFCode = 0
       /\ 8 * Len(lzw.comp)
            >= lzw.cfg.initialBits
                 * (Len(lzw.src)
                    + IF "LZW_EOF_PARAM_VALID" \in lzw.cfg.flags THEN 1 ELSE 0)

\* C24 (LZW encoder finalisation): in a pass the compressor writes the EOF
\* codeword once, in the first call that has no input left, every input
\* byte having been written as a codeword before; it is written at the
\* codeword width of that moment, the last byte is filled up with zero bits
\* and handed out, and no later call produces a byte.
LzwEncoderEnd ==
  [][EndCodewordStep]_vars /\ [][EndFinalStep]_vars /\ []EndComplete

\* A pass over a string long enough for the width to grow has ended with an
\* EOF codeword wider than initialBits, and bytes have been handed out.
LzwEncoderEndWitness ==
  /\ lzw.phase = "decompress"
  /\ "LZW_EOF_PARAM_VALID" \in lzw.cfg.flags
  /\ lzw.enc.currentBits > lzw.cfg.initialBits
  /\ lzw.enc.curEOFCode = 0
  /\ Len(lzw.src) >= WidenLen
  /\ 8 * Len(lzw.comp) > lzw.cfg.initialBits * (Len(lzw.src) + 1)

----------------------------------------------------------------------------
(* The format of filter_lzss_compress's output, under SpecLzss.             *)

\* One 9-bit literal token per byte of src as a bit sequence: a flag bit 0,
\* then the byte's eight bits in the given bit order.
LzssLiteralBits(endian, src) ==
  [k \in 1 .. 9 * Len(src) |->
     IF (k - 1) % 9 = 0 THEN 0
     ELSE EmittedBit(endian, 8, src[((k - 1) \div 9) + 1], ((k - 1) % 9) - 1)]

LzssFormatOf(l) ==
  BitsOf(l.enc.endianType, l.comp)
    = ZeroPadded(LzssLiteralBits(l.enc.endianType, l.src))

\* C25 (LZSS encoder output format): the compressor's whole output, read as
\* bits in the filter's bit order, is a flag bit 0 and the eight bits of the
\* byte for every input byte in input order, then zero bits up to the byte
\* boundary.
LzssEncoderFormat ==
  (lzss.kind = "roundtrip" /\ lzss.phase \in {"decompress", "done", "failed"})
    => LzssFormatOf(lzss)

\* The same for big-endian filters only.
LzssEncoderFormatBigEndian ==
  (lzss.kind = "roundtrip" /\ lzss.phase \in {"decompress", "done", "failed"}
   /\ lzss.enc.endianType = bigEndian)
    => LzssFormatOf(lzss)

\* A little-endian compressor has finished a pass over MaxLen bytes.
LzssEncoderFormatWitness ==
  /\ lzss.kind = "roundtrip" /\ lzss.phase = "decompress"
  /\ lzss.enc.endianType = littleEndian
  /\ Len(lzss.src) = MaxLen
  /\ Len(lzss.comp) = (9 * MaxLen + 7) \div 8

----------------------------------------------------------------------------
(* SpecCursor: any interleaving of read, write, seek from the start, seek   *)
(* from the current position, flush, flushByte and peekByte on a            *)
(* stream-bound bitstream.  hist records the caller's view: the position    *)
(* the calls should have led to (gpos), the bits written (cover), the last  *)
(* call and its argument, and whether a relative seek has been made.        *)

\* peekByte without the test for a used-up bufByte.
peekByteRaw(c) ==
  [c EXCEPT !.out = c.bufByte,
            !.ret = IF c.endianType = littleEndian
                    THEN U8(Not(Shl(255, c.curBitPos % 8)))
                    ELSE U8(Not(Shr(255, c.curBitPos % 8)))]

\* void bitstream::peekByte(uint8_t *buf, uint8_t *mask); *buf is left in
\* out and *mask in ret.
peekByte(c) ==
  [c EXCEPT !.out = IF c.curBitPos = 8 THEN 0 ELSE c.bufByte,
            !.ret = IF c.endianType = littleEndian
                    THEN U8(Not(Shl(255, c.curBitPos % 8)))
                    ELSE U8(Not(Shr(255, c.curBitPos % 8)))]

MaxCursorOps == 4

CursorMedia == {<<>>, <<60>>, <<60, 165, 15>>}
CursorReads == {3, 8}
CursorWrites == {<<3, 5>>, <<8, 129>>}
CursorStarts == {0, 3, 8}
CursorDeltas == {-3, 0, 5, 8}

CursorInit ==
  /\ \E e \in {littleEndian, bigEndian}, m \in CursorMedia :
       /\ bit = StreamBound(e, m)
       /\ hist = [orig |-> m, cover |-> <<>>, gpos |-> 0, nops |-> 0,
                  lastOp |-> "none", lastArg |-> 0, lastPos |-> 0,
                  relative |-> FALSE]
  /\ lzss = Idle /\ lzw = Idle /\ dict = Idle /\ seg = Idle

CursorCanStep == hist.nops < MaxCursorOps /\ bit.err = ""

\* The length of the data once the bits written have reached the medium.
DataLen == IF flush(bit).err = "" THEN Len(flush(bit).parent) ELSE Len(bit.parent)

\* hist after a call that was made at hist.gpos and should lead to pos.
CursorCalled(op, arg, pos) ==
  [hist EXCEPT !.nops = @ + 1, !.lastOp = op, !.lastArg = arg,
               !.lastPos = hist.gpos, !.gpos = pos]

CursorRead(bits) ==
  /\ CursorCanStep
  /\ bit' = read(bit, "NULL", bits)
  /\ hist' = CursorCalled("read", bits,
                          hist.gpos
                            + Min(bits, Max(0, 8 * Len(bit.parent) - hist.gpos)))
  /\ UNCHANGED <<lzss, lzw, dict, seg>>

CursorWrite(bits, v) ==
  /\ CursorCanStep
  /\ bit' = write(bit, "NULL", bits, v)
  /\ hist' = [CursorCalled("write", bits, hist.gpos + bits)
                EXCEPT !.cover = Cover(@, bit.endianType, hist.gpos, bits, v)]
  /\ UNCHANGED <<lzss, lzw, dict, seg>>

\* seek(off, stream::start) to a position in the data or at its end.
CursorSeekStart(off) ==
  /\ CursorCanStep
  /\ off <= 8 * DataLen
  /\ bit' = seek(bit, off, "start")
  /\ hist' = CursorCalled("seekStart", off, off)
  /\ UNCHANGED <<lzss, lzw, dict, seg>>

\* seek(d, stream::cur) to a position in the data or at its end; the caller
\* goes on from the position returned.
CursorSeekCur(d) ==
  /\ CursorCanStep
  /\ hist.gpos + d >= 0 /\ hist.gpos + d <= 8 * DataLen
  /\ bit' = seek(bit, d, "cur")
  /\ hist' = [CursorCalled("seekCur", d,
                           IF bit'.err = "" THEN bit'.ret ELSE hist.gpos + d)
                EXCEPT !.relative = TRUE]
  /\ UNCHANGED <<lzss, lzw, dict, seg>>

CursorFlush ==
  /\ CursorCanStep
  /\ bit' = flush(bit)
  /\ hist' = CursorCalled("flush", 0, hist.gpos)
  /\ UNCHANGED <<lzss, lzw, dict, seg>>

\* flushByte(): the position goes up to the byte boundary, and the rest of
\* a byte that a write entered counts as written with zero bits.
CursorFlushByte ==
  /\ CursorCanStep
  /\ bit' = flushByte(bit, "NULL")
  /\ hist' = [CursorCalled("flushByte", 0, 8 * ((hist.gpos + 7) \div 8))
                EXCEPT !.cover = IF bit.origBufByte = WASNT_BUFFERED
                                    /\ hist.gpos % 8 # 0
                                 THEN Cover(@, bit.endianType, hist.gpos,
                                            8 - (hist.gpos % 8), 0)
                                 ELSE @]
  /\ UNCHANGED <<lzss, lzw, dict, seg>>

\* peekByte() is not counted: it can follow any call.
CursorPeek ==
  /\ bit.err = ""
  /\ hist.lastOp # "peek"
  /\ bit' = peekByte(bit)
  /\ hist' = [hist EXCEPT !.lastOp = "peek", !.lastArg = 0,
                          !.lastPos = hist.gpos]
  /\ UNCHANGED <<lzss, lzw, dict, seg>>

CursorNext ==
  \/ \E bits \in CursorReads : CursorRead(bits)
  \/ \E w \in CursorWrites : CursorWrite(w[1], w[2])
  \/ \E off \in CursorStarts : CursorSeekStart(off)
  \/ \E d \in CursorDeltas : CursorSeekCur(d)
  \/ CursorFlush
  \/ CursorFlushByte
  \/ CursorPeek

SpecCursor == CursorInit /\ [][CursorNext]_vars

----------------------------------------------------------------------------
(* Observer definitions for SpecCursor *)

\* The bit position the fields of the bitstream stand for: offset is one
\* past the byte in bufByte once that byte has been read or written out.
CursorOf(c) ==
  IF c.origBufByte >= 0 THEN 8 * (c.offset - 1) + c.curBitPos
  ELSE IF c.origBufByte = WASNT_BUFFERED THEN 8 * c.offset + c.curBitPos
  ELSE 8 * c.offset

\* The value a read of n bits at bit p of bytes returns.
BitsAt(endian, bytes, p, n) ==
  CHOOSE v \in 0 .. Pow2(n) - 1 :
    \A i \in 0 .. n - 1 :
      EmittedBit(endian, n, v, i) = MediumBit(endian, bytes, p + i)

\* Bit k of the data as the caller has made it: the last value written to
\* it, or the bit of the original medium.
CallerBit(endian, h, k) ==
  IF k < Len(h.cover) /\ h.cover[k + 1] # -1 THEN h.cover[k + 1]
  ELSE IF k < 8 * Len(h.orig) THEN MediumBit(endian, h.orig, k)
  ELSE 0

\* The medium holds what the caller wrote and, elsewhere, what it held.
MediumAgrees(endian, parent, h) ==
  /\ Len(h.cover) <= 8 * Len(parent)
  /\ Len(h.orig) <= Len(parent)
  /\ \A k \in 0 .. 8 * Len(parent) - 1 :
       (k < 8 * Len(h.orig) \/ (k < Len(h.cover) /\ h.cover[k + 1] # -1))
         => MediumBit(endian, parent, k) = CallerBit(endian, h, k)

\* The fields of the bitstream and the medium are the same in both.
SameStream(c1, c2) == BsOf(c1) = BsOf(c2) /\ c1.parent = c2.parent

\* The bitstream is where the caller is, and a flush would leave the medium
\* as the caller made it.
CursorSound(c, h) ==
  /\ c.err = ""
  /\ CursorOf(c) = h.gpos
  /\ c.curBitPos % 8 = h.gpos % 8
  /\ flush(c).err = ""
  /\ MediumAgrees(c.endianType, flush(c).parent, h)

----------------------------------------------------------------------------
(* Properties of SpecCursor *)

\* The step is a counted call op.
CursorStepIs(op) == hist'.nops = hist.nops + 1 /\ hist'.lastOp = op

\* A read that follows the call op directly and stays inside the data
\* returns the bits of the medium from the caller's position on.
ReadContinuesAfter(op) ==
  (CursorStepIs("read") /\ hist.lastOp = op
   /\ hist.gpos + hist'.lastArg <= 8 * Len(bit.parent))
    => /\ bit'.err = ""
       /\ bit'.ret = hist'.lastArg
       /\ bit'.out = BitsAt(bit.endianType, bit.parent, hist.gpos, hist'.lastArg)

\* A write that follows the call op directly puts its bits at the caller's
\* position: a flush would leave the medium as the caller made it.
WriteContinuesAfter(op) ==
  (CursorStepIs("write") /\ hist.lastOp = op)
    => /\ bit'.err = ""
       /\ CursorOf(bit') = hist'.gpos
       /\ flush(bit').err = ""
       /\ MediumAgrees(bit.endianType, flush(bit').parent, hist')

\* seek(o, stream::start) with o inside the data returns o and is at o.
SeekStartStep ==
  (CursorStepIs("seekStart") /\ hist'.lastArg < 8 * DataLen)
    => /\ bit'.err = ""
       /\ bit'.ret = hist'.lastArg
       /\ CursorOf(bit') = hist'.lastArg

\* seek(o, stream::start) to the position the seek before it returned.
SeekAgainStep ==
  (CursorStepIs("seekStart") /\ hist.lastOp = "seekStart"
   /\ hist'.lastArg = bit.ret)
    => SameStream(bit', bit) /\ bit'.ret = bit.ret /\ bit'.err = ""

\* C26 (BitStream absolute seek): seek(o, start) with o inside the data
\* returns o, the read that follows returns the bits of the medium from
\* bit o on, and a second seek to the position returned changes neither the
\* bitstream nor the medium.
AbsoluteSeek ==
  /\ [][SeekStartStep]_vars
  /\ [][ReadContinuesAfter("seekStart")]_vars
  /\ [][SeekAgainStep]_vars

\* The same for runs without a seek from the current position.
AbsoluteSeekAlone ==
  /\ [][~hist.relative => SeekStartStep]_vars
  /\ [][~hist.relative => ReadContinuesAfter("seekStart")]_vars
  /\ [][~hist.relative => SeekAgainStep]_vars

\* A seek into the middle of a byte of the data was followed by a read that
\* went over the end of that byte.
AbsoluteSeekWitness ==
  /\ hist.lastOp = "read" /\ hist.lastArg = 8 /\ hist.lastPos = 3
  /\ hist.gpos = 11 /\ bit.ret = 8 /\ bit.err = ""
  /\ ~hist.relative

\* seek(d, stream::cur) to a position inside the data or at its end returns
\* the caller's position plus d and is there.
SeekCurStep ==
  CursorStepIs("seekCur")
    => /\ bit'.err = ""
       /\ bit'.ret = hist.gpos + hist'.lastArg
       /\ CursorOf(bit') = hist.gpos + hist'.lastArg

\* C27 (BitStream relative seek): from every state the calls lead to,
\* seek(d, cur) returns the position before the call plus d and leaves the
\* bitstream there; seek(0, cur) does not move it.
RelativeSeek == [][SeekCurStep]_vars

\* The same for seeks made in the middle of a byte or with a byte in
\* bufByte.
RelativeSeekBuffered ==
  [][bit.origBufByte # INITIAL_VALUE => SeekCurStep]_vars

\* A seek from the current position has been made on a bitstream that had
\* no byte in bufByte, and one in the middle of a byte.
RelativeSeekWitness ==
  /\ hist.lastOp = "seekCur" /\ hist.lastArg = 0 /\ hist.nops = 1
  /\ bit.err = "" /\ hist.orig # <<>>

\* flush() writes what the caller made of the data to the medium and stays
\* at the bit position.
FlushStep ==
  CursorStepIs("flush")
    => /\ bit'.err = ""
       /\ CursorOf(bit') = hist.gpos
       /\ bit'.curBitPos = bit.curBitPos
       /\ MediumAgrees(bit.endianType, bit'.parent, hist)

\* flush() directly after flush().
FlushAgainStep ==
  (CursorStepIs("flush") /\ hist.lastOp = "flush") => SameStream(bit', bit)

\* C28 (BitStream flush() keeps the bit position): flush() in the middle of
\* a byte writes the merged byte to the medium, the read or write that
\* follows continues at the same bit of the same byte, and a second flush()
\* directly after the first changes nothing.
FlushKeepsPosition ==
  /\ [][FlushStep]_vars
  /\ [][ReadContinuesAfter("flush")]_vars
  /\ [][WriteContinuesAfter("flush")]_vars
  /\ [][FlushAgainStep]_vars

\* The same for runs without a seek from the current position.
FlushKeepsPositionAlone ==
  /\ [][~hist.relative => FlushStep]_vars
  /\ [][~hist.relative => ReadContinuesAfter("flush")]_vars
  /\ [][~hist.relative => WriteContinuesAfter("flush")]_vars
  /\ [][~hist.relative => FlushAgainStep]_vars

\* A write into the middle of a byte of the data, a flush that changed the
\* medium, and a write after it.
FlushKeepsPositionWitness ==
  /\ hist.lastOp = "write" /\ hist.nops = 3 /\ hist.gpos = 6
  /\ hist.orig # <<>> /\ bit.parent # hist.orig /\ bit.err = ""
  /\ ~hist.relative

\* flushByte() leaves the bitstream at the next byte boundary, or where it
\* is if it is at one, with the byte in progress in the medium and no byte
\* beyond it.
FlushByteStep ==
  CursorStepIs("flushByte")
    => /\ bit'.err = ""
       /\ CursorOf(bit') = hist'.gpos
       /\ bit'.curBitPos = 8
       /\ hist.gpos % 8 = 0 => hist'.gpos = hist.gpos
       /\ MediumAgrees(bit.endianType, bit'.parent, hist')
       /\ Len(bit'.parent) >= Len(bit.parent)
       /\ Len(bit'.parent) <= Max(Len(bit.parent), hist'.gpos \div 8)

\* flushByte() directly after flushByte().
FlushByteAgainStep ==
  (CursorStepIs("flushByte") /\ hist.lastOp = "flushByte")
    => SameStream(bit', bit)

\* C29 (BitStream flushByte()): after flushByte() the read or write that
\* follows starts at bit 0 of the byte after the one in progress; the byte
\* in progress is in the medium if it was modified, the bits never written
\* being zero if a write entered the byte; at a byte boundary no byte is
\* skipped and none is added, and a second flushByte() changes nothing.
FlushByteAligns ==
  /\ [][FlushByteStep]_vars
  /\ [][ReadContinuesAfter("flushByte")]_vars
  /\ [][WriteContinuesAfter("flushByte")]_vars
  /\ [][FlushByteAgainStep]_vars

\* The same for runs without a seek from the current position.
FlushByteAlignsAlone ==
  /\ [][~hist.relative => FlushByteStep]_vars
  /\ [][~hist.relative => ReadContinuesAfter("flushByte")]_vars
  /\ [][~hist.relative => WriteContinuesAfter("flushByte")]_vars
  /\ [][~hist.relative => FlushByteAgainStep]_vars

\* A write entered a byte of the data, flushByte() put it into the medium
\* with zero bits behind the bits written, and a read followed.
FlushByteAlignsWitness ==
  /\ hist.lastOp = "read" /\ hist.nops = 3 /\ hist.lastPos = 8
  /\ Len(hist.cover) = 8 /\ hist.cover[8] = 0
  /\ bit.parent # hist.orig /\ bit.ret = hist.lastArg /\ bit.err = ""
  /\ ~hist.relative

\* The mask of the k bits before the position in the current byte.
PeekMask(endian, k) ==
  IF endian = littleEndian THEN Pow2(k) - 1 ELSE 256 - Pow2(8 - k)

\* peekByte() changes nothing, returns the mask of the bits before the
\* position in the current byte, and under the mask the bits the caller
\* made of that byte.
PeekStep ==
  (hist'.lastOp = "peek" /\ hist.lastOp # "peek")
    => /\ SameStream(bit', bit)
       /\ bit'.err = ""
       /\ bit.curBitPos % 8 = hist.gpos % 8
       /\ bit'.ret = PeekMask(bit.endianType, bit.curBitPos % 8)
       /\ bit.curBitPos % 8 = 0 => (bit'.out = 0 /\ bit'.ret = 0)
       /\ \A i \in 0 .. (hist.gpos % 8) - 1 :
            MediumBit(bit.endianType, <<bit'.out>>, i)
              = CallerBit(bit.endianType, hist, 8 * (hist.gpos \div 8) + i)

\* C30 (BitStream peekByte()): peekByte() changes neither the bitstream nor
\* the medium; the mask has curBitPos mod 8 bits set, the low ones for
\* little-endian and the high ones for big-endian; at a byte boundary byte
\* and mask are 0, and elsewhere the byte holds, under the mask, the bits
\* written so far in the current byte.
PeekByteView == [][PeekStep]_vars

\* peekByte() in the middle of a byte that two writes have filled in part.
PeekByteViewWitness ==
  /\ hist.lastOp = "peek" /\ hist.nops = 2 /\ hist.gpos = 6
  /\ Len(hist.cover) = 6 /\ bit.origBufByte = WASNT_BUFFERED
  /\ bit.ret = PeekMask(bit.endianType, 6) /\ bit.out # 0

----------------------------------------------------------------------------
(* SpecOps: any sequence of read, write, seek, flush, flushByte, peekByte   *)
(* and changeEndian calls on a stream-bound bitstream, with bit counts from *)
(* 0 to 32 and with values that do and do not fit the bit count.  A call    *)
(* that threw seek_error leaves the object as it was at the throw and the   *)
(* caller goes on; a failed assertion ends the run.                         *)

\* void bitstream::changeEndian(bitstream::endian endianType)
changeEndian(c, endianType) == [c EXCEPT !.endianType = endianType]

OpsWidths == {0, 3, 9, INT_BITS}

\* Values handed to write(bits, v): two that fit, and for bits < 32 the
\* smallest value that does not fit and 0xFFFFFFFF.
OpsVals(bits) ==
  {0, Ones(bits)} \cup (IF bits < INT_BITS THEN {Pow2(bits), -1} ELSE {})

\* in < (1u << bits) as unsigned values.
Fits(bits, v) == v >= 0 /\ v < Pow2(bits)

OpsMedia == {<<>>, <<60, 165>>}

OpsOffsets == {-3, 0, 9}

OpsInit ==
  /\ \E e \in {littleEndian, bigEndian}, m \in OpsMedia :
       bit = StreamBound(e, m)
  /\ hist = [nops |-> 0, op |-> "none", bits |-> 0, v |-> 0]
  /\ lzss = Idle /\ lzw = Idle /\ dict = Idle /\ seg = Idle

OpsCanStep ==
  hist.nops < MaxOps /\ bit.err \notin {"assert", "assert_curBitPos"}

\* The object a call finds: the exception of the call before has been
\* caught.
Caught(c) == [c EXCEPT !.err = ""]

OpsCalled(op, bits, v) ==
  hist' = [nops |-> hist.nops + 1, op |-> op, bits |-> bits, v |-> v]

OpsRead(bits) ==
  /\ OpsCanStep
  /\ bit' = read(Caught(bit), "NULL", bits)
  /\ OpsCalled("read", bits, 0)
  /\ UNCHANGED <<lzss, lzw, dict, seg>>

OpsWrite(bits, v) ==
  /\ OpsCanStep
  /\ bit' = write(Caught(bit), "NULL", bits, v)
  /\ OpsCalled("write", bits, v)
  /\ UNCHANGED <<lzss, lzw, dict, seg>>

OpsSeek(off, way) ==
  /\ OpsCanStep
  /\ bit' = seek(Caught(bit), off, way)
  /\ OpsCalled("seek", 0, off)
  /\ UNCHANGED <<lzss, lzw, dict, seg>>

OpsFlush ==
  /\ OpsCanStep
  /\ bit' = flush(Caught(bit))
  /\ OpsCalled("flush", 0, 0)
  /\ UNCHANGED <<lzss, lzw, dict, seg>>

OpsFlushByte ==
  /\ OpsCanStep
  /\ bit' = flushByte(Caught(bit), "NULL")
  /\ OpsCalled("flushByte", 0, 0)
  /\ UNCHANGED <<lzss, lzw, dict, seg>>

OpsPeek ==
  /\ OpsCanStep
  /\ bit' = peekByte(Caught(bit))
  /\ OpsCalled("peekByte", 0, 0)
  /\ UNCHANGED <<lzss, lzw, dict, seg>>

OpsChangeEndian(e) ==
  /\ OpsCanStep
  /\ bit' = changeEndian(Caught(bit), e)
  /\ OpsCalled("changeEndian", 0, 0)
  /\ UNCHANGED <<lzss, lzw, dict, seg>>

OpsNext ==
  \/ \E bits \in OpsWidths : OpsRead(bits)
  \/ \E bits \in OpsWidths : \E v \in OpsVals(bits) : OpsWrite(bits, v)
  \/ \E off \in OpsOffsets, way \in {"start", "cur", "end"} : OpsSeek(off, way)
  \/ OpsFlush
  \/ OpsFlushByte
  \/ OpsPeek
  \/ \E e \in {littleEndian, bigEndian} : OpsChangeEndian(e)

SpecOps == OpsInit /\ [][OpsNext]_vars

\* The bitstream members and the medium.
OpsState(c) ==
  [bufByte |-> c.bufByte, curBitPos |-> c.curBitPos, offset |-> c.offset,
   origBufByte |-> c.origBufByte, endianType |-> c.endianType,
   parent |-> c.parent]

\* The step is a write call.
WriteCall == hist'.op = "write" /\ hist'.nops = hist.nops + 1

\* A write of a value wider than bits < 32 fails the assertion with every
\* member and the medium as the call found them.
WriteTooWideStep ==
  (WriteCall /\ hist'.bits < INT_BITS /\ ~Fits(hist'.bits, hist'.v))
    => /\ bit'.err = "assert"
       /\ OpsState(bit') = OpsState(bit)

\* A write of a value that fits fails no assertion.
WriteFitsStep ==
  (WriteCall /\ (hist'.bits = INT_BITS \/ Fits(hist'.bits, hist'.v)))
    => bit'.err \notin {"assert", "assert_curBitPos"}

\* C31 (BitStream write precondition): write(bits, v) with bits < 32 and
\* v >= 2^bits fails its assertion before any state is changed: bufByte,
\* curBitPos, offset, origBufByte and the medium are as before the call.  A
\* write whose value fits fails no assertion.
WritePrecondition == [][WriteTooWideStep]_vars /\ [][WriteFitsStep]_vars

\* A write of a value one bit too wide has failed its assertion in the
\* middle of a byte that earlier writes had begun.
WritePreconditionWitness ==
  /\ hist.op = "write" /\ bit.err = "assert"
  /\ hist.bits \in 1 .. 9 /\ hist.v = Pow2(hist.bits)
  /\ bit.origBufByte = WASNT_BUFFERED /\ bit.curBitPos < 8
  /\ bit.bufByte # 0

\* C32 (BitStream cursor invariant): after any sequence of read, write,
\* seek, flush, flushByte, peekByte and changeEndian calls with bit counts in
\* 0..32, curBitPos is in 0..8 and origBufByte is INITIAL_VALUE,
\* WASNT_BUFFERED or a byte value, and the assertions curBitPos <= 8 of read
\* and write have not failed.
CursorInvariant ==
  /\ bit.curBitPos \in 0 .. 8
  /\ bit.origBufByte \in {INITIAL_VALUE, WASNT_BUFFERED} \cup (0 .. 255)
  /\ bit.err # "assert_curBitPos"

\* The last of MaxOps calls was a 32-bit write that began and ended in the
\* middle of a byte.
CursorInvariantWitness ==
  /\ hist.nops = MaxOps /\ hist.op = "write" /\ hist.bits = INT_BITS
  /\ bit.err = "" /\ bit.curBitPos \in 1 .. 7
  /\ bit.origBufByte = WASNT_BUFFERED
  /\ Len(bit.parent) >= 4

----------------------------------------------------------------------------
(* The buffers of the transform calls of SpecPass.  A filter record keeps   *)
(* the buffers of its last call: inb and lenIn as passed, r as *lenIn on    *)
(* return, lenOut as passed, w as *lenOut on return and outb as the bytes   *)
(* stored through out.                                                     *)

\* The last call stayed inside its buffers: it consumed at most the bytes
\* supplied, stored exactly the bytes it reports, and at most lenOut of them.
CallBounds(t) ==
  /\ t.lenIn = Len(t.inb)
  /\ t.r \in 0 .. t.lenIn
  /\ t.w \in 0 .. t.lenOut
  /\ Len(t.outb) = t.w

\* The sanity assertions of realPopulate and flush: the lengths returned do
\* not exceed the arrays of size bytes the driver holds.
DriverBounds(d, t) ==
  /\ t.r <= d.size
  /\ t.w <= BUFFER_SIZE
  /\ Len(d.leftover) <= d.size

\* C33 (transform buffer bounds): after every call of each of the four
\* codecs the lenOut returned is at most the capacity passed in and the lenIn
\* returned is at most the input length passed in; no byte was stored beyond
\* the capacity and none fetched beyond the input, and the drivers' sanity
\* assertions hold.
TransformBufferBounds ==
  /\ lzss.phase # "none"
       => /\ CallBounds(lzss.enc) /\ CallBounds(lzss.dec)
          /\ DriverBounds(lzss.drv, lzss.enc)
          /\ DriverBounds(lzss.drv, lzss.dec)
  /\ lzw.phase # "none"
       => /\ CallBounds(lzw.enc) /\ CallBounds(lzw.dec)
          /\ DriverBounds(lzw.drv, lzw.enc)
          /\ DriverBounds(lzw.drv, lzw.dec)

\* A call of the LZSS decompressor with room for one byte has returned in
\* the middle of a reference, with input left over.
TransformBufferBoundsWitness ==
  /\ lzss.phase = "decompress" /\ lzss.populated
  /\ lzss.dec.lenOut = 1 /\ lzss.dec.w = 1
  /\ lzss.dec.lzssLength > 0
  /\ lzss.dec.r < lzss.dec.lenIn

\* ---------------------------------------------------------------------------
\* stream::seg: a stream whose content is the concatenation of three sources,
\* a window [off_parent, off_endparent) of the parent stream, the in-memory
\* vector vcSecond, and an optional child seg psegThird.  The parent is a
\* stream::string, shared by every seg of the chain, and is carried beside
\* the seg record in a "world" [s, parent, err, ret, buf].
\* ---------------------------------------------------------------------------

NoSeg == [none |-> TRUE]

HasThird(s) == s.psegThird # NoSeg

Zeroes(n) == [i \in 1 .. n |-> 0]

\* seg::seg(parent)
NewSeg(parent) ==
  [off_parent |-> 0, off_endparent |-> Len(parent), vcSecond |-> <<>>,
   psegThird |-> NoSeg, offset |-> 0]

World(s, parent) == [s |-> s, parent |-> parent, err |-> "", ret |-> 0, buf |-> <<>>]

Failed(s, parent, e) == [World(s, parent) EXCEPT !.err = e]

\* seg::size
RECURSIVE SegSize(_)
SegSize(s) ==
  (s.off_endparent - s.off_parent) + Len(s.vcSecond)
    + (IF HasThird(s) THEN SegSize(s.psegThird) ELSE 0)

\* output_string::try_write at string offset pos: the string grows when the
\* write ends beyond it, and an empty string takes an empty write as 0 bytes.
StringTryWrite(data, pos, bytes) ==
  [i \in 1 .. Max(Len(data), pos + Len(bytes)) |->
     IF i > pos /\ i <= pos + Len(bytes) THEN bytes[i - pos]
     ELSE IF i <= Len(data) THEN data[i] ELSE 0]

\* output_string::truncate: std::string::resize pads with zero bytes
StringTruncate(data, size) ==
  [i \in 1 .. size |-> IF i <= Len(data) THEN data[i] ELSE 0]

\* input_string::try_read at string offset pos
StringTryRead(data, pos, len) ==
  SubSeq(data, pos + 1, pos + Min(len, Len(data) - pos))

\* seg::try_read, third source: the child reads at its own offset
RECURSIVE SegTryRead(_, _, _)
SegReadThirdDone(s, t, got) ==
  [s |-> [s EXCEPT !.psegThird = t.s, !.offset = s.offset + t.ret],
   parent |-> t.parent, err |-> t.err,
   ret |-> Len(got) + t.ret, buf |-> got \o t.buf]

SegReadThird(s, parent, lenRemaining, got) ==
  IF lenRemaining > 0 /\ HasThird(s)
  THEN SegReadThirdDone(s, SegTryRead(s.psegThird, parent, lenRemaining), got)
  ELSE [World(s, parent) EXCEPT !.ret = Len(got), !.buf = got]

\* seg::try_read, second source
SegReadSecondCopy(s, parent, lenRemaining, got, lenSecond, offSecond) ==
  IF offSecond < 0 \/ offSecond >= Len(s.vcSecond)
  THEN Failed(s, parent, "assert")
  ELSE SegReadThird([s EXCEPT !.offset = s.offset + lenSecond], parent,
                    lenRemaining - lenSecond,
                    got \o SubSeq(s.vcSecond, offSecond + 1, offSecond + lenSecond))

SegReadSecond(s, parent, lenRemaining, got) ==
  LET lenEntireFirst == s.off_endparent - s.off_parent
      offSecondEnd == lenEntireFirst + Len(s.vcSecond)
  IN IF lenRemaining > 0 /\ s.offset < offSecondEnd
     THEN SegReadSecondCopy(s, parent, lenRemaining, got,
                            Min(lenRemaining, offSecondEnd - s.offset),
                            s.offset - lenEntireFirst)
     ELSE SegReadThird(s, parent, lenRemaining, got)

\* seg::try_read, first source: a short read of the parent ends the call
SegReadFirst(s, parent, len, lenFirst, got) ==
  IF Len(got) < lenFirst
  THEN [World([s EXCEPT !.offset = s.offset + Len(got)], parent)
          EXCEPT !.ret = Len(got), !.buf = got]
  ELSE SegReadSecond([s EXCEPT !.offset = s.offset + Len(got)], parent,
                     len - lenFirst, got)

SegTryRead(s, parent, len) ==
  LET lenEntireFirst == s.off_endparent - s.off_parent
      lenFirst == Min(len, lenEntireFirst - s.offset)
  IN IF s.offset < lenEntireFirst
     THEN IF s.offset + s.off_parent > Len(parent)
          THEN Failed(s, parent, "seek_error")
          ELSE SegReadFirst(s, parent, len, lenFirst,
                            StringTryRead(parent, s.offset + s.off_parent, lenFirst))
     ELSE SegReadSecond(s, parent, len, <<>>)

\* seg::try_write, third source
RECURSIVE SegTryWrite(_, _, _)
SegWriteThirdDone(s, t, wrote) ==
  [s |-> [s EXCEPT !.psegThird = t.s, !.offset = s.offset + t.ret],
   parent |-> t.parent, err |-> t.err, ret |-> wrote + t.ret, buf |-> <<>>]

SegWriteThird(s, parent, rest, wrote) ==
  IF Len(rest) > 0 /\ HasThird(s)
  THEN SegWriteThirdDone(s, SegTryWrite(s.psegThird, parent, rest), wrote)
  ELSE [World(s, parent) EXCEPT !.ret = wrote]

\* seg::try_write, second source
SegWriteSecondCopy(s, parent, rest, wrote, lenSecond, offSecond) ==
  IF offSecond < 0 \/ offSecond + lenSecond > Len(s.vcSecond)
  THEN Failed(s, parent, "assert")
  ELSE SegWriteThird(
         [s EXCEPT !.offset = s.offset + lenSecond,
                   !.vcSecond = [i \in 1 .. Len(s.vcSecond) |->
                      IF i > offSecond /\ i <= offSecond + lenSecond
                      THEN rest[i - offSecond] ELSE s.vcSecond[i]]],
         parent, SubSeq(rest, lenSecond + 1, Len(rest)), wrote + lenSecond)

SegWriteSecond(s, parent, rest, wrote) ==
  LET lenEntireFirst == s.off_endparent - s.off_parent
      offSecondEnd == lenEntireFirst + Len(s.vcSecond)
  IN IF Len(rest) > 0 /\ s.offset < offSecondEnd
     THEN SegWriteSecondCopy(s, parent, rest, wrote,
                             Min(Len(rest), offSecondEnd - s.offset),
                             s.offset - lenEntireFirst)
     ELSE SegWriteThird(s, parent, rest, wrote)

\* seg::try_write, first source: written straight into the parent
SegWriteFirst(s, parent, bytes, lenFirst, lenWroteFirst) ==
  IF lenWroteFirst < lenFirst
  THEN [World(s, parent) EXCEPT !.ret = lenWroteFirst]
  ELSE SegWriteSecond(
         [s EXCEPT !.offset = s.offset + lenWroteFirst],
         StringTryWrite(parent, s.offset + s.off_parent, SubSeq(bytes, 1, lenFirst)),
         SubSeq(bytes, lenFirst + 1, Len(bytes)), lenWroteFirst)

SegTryWrite(s, parent, bytes) ==
  LET lenEntireFirst == s.off_endparent - s.off_parent
      lenFirst == Min(Len(bytes), lenEntireFirst - s.offset)
  IN IF s.offset < lenEntireFirst
     THEN IF s.offset + s.off_parent > Len(parent)
          THEN Failed(s, parent, "seek_error")
          ELSE SegWriteFirst(s, parent, bytes, lenFirst,
                             IF Len(parent) = 0 THEN 0 ELSE lenFirst)
     ELSE SegWriteSecond(s, parent, bytes, 0)

\* seg::seekg and seg::seekp: the child is re-seeked to the matching place
RECURSIVE SegSeek(_, _, _)
SegSeekThird(s) ==
  LET offSecondEnd == (s.off_endparent - s.off_parent) + Len(s.vcSecond)
  IN IF ~HasThird(s) THEN s
     ELSE [s EXCEPT !.psegThird =
             SegSeek(s.psegThird,
                     IF s.offset >= offSecondEnd THEN s.offset - offSecondEnd ELSE 0,
                     "start").s]

SegSeekTo(s, baseOffset, off) ==
  IF off < 0 /\ baseOffset < -off THEN [s |-> s, err |-> "seek_error"]
  ELSE IF baseOffset + off > SegSize(s) THEN [s |-> s, err |-> "seek_error"]
  ELSE [s |-> SegSeekThird([s EXCEPT !.offset = baseOffset + off]), err |-> ""]

SegSeek(s, off, from) ==
  SegSeekTo(s, CASE from = "cur" -> s.offset
                 [] from = "end" -> SegSize(s)
                 [] OTHER -> 0, off)
\* Result of an operation that touches only the seg chain, not the parent
SegOk(s) == [s |-> s, err |-> ""]

SegFailed(s, e) == [s |-> s, err |-> e]

\* A split whose child keeps the whole first source
SegSplitWhole(s) ==
  SegOk([s EXCEPT
         !.off_endparent = s.off_parent + s.offset,
         !.vcSecond = <<>>,
         !.psegThird = [off_parent |-> s.off_parent,
                        off_endparent |-> s.off_endparent,
                        vcSecond |-> s.vcSecond,
                        psegThird |-> s.psegThird,
                        offset |-> 0]])

\* seg::split: the part of the first source from the seek position onward,
\* the second source and the old child all move into a new child
SegSplit(s) ==
  IF s.offset >= s.off_endparent - s.off_parent THEN SegFailed(s, "assert")
  ELSE SegOk([s EXCEPT
         !.off_endparent = s.off_parent + s.offset,
         !.vcSecond = <<>>,
         !.psegThird = [off_parent |-> s.off_parent + s.offset,
                        off_endparent |-> s.off_endparent,
                        vcSecond |-> s.vcSecond,
                        psegThird |-> s.psegThird,
                        offset |-> 0]])

\* seg::insert
RECURSIVE SegInsert(_, _)
SegInsertSplit(sp, lenInsert) ==
  IF sp.err # "" THEN sp ELSE [sp EXCEPT !.s.vcSecond = Zeroes(lenInsert)]

SegInsertThird(s, t) == [s |-> [s EXCEPT !.psegThird = t.s], err |-> t.err]

SegInsertSecond(s, lenInsert, at) ==
  SegOk([s EXCEPT !.vcSecond = SubSeq(s.vcSecond, 1, at) \o Zeroes(lenInsert)
                                 \o SubSeq(s.vcSecond, at + 1, Len(s.vcSecond))])

SegInsert(s, lenInsert) ==
  LET lenFirst == s.off_endparent - s.off_parent
  IN IF s.offset < lenFirst THEN SegInsertSplit(SegSplit(s), lenInsert)
     ELSE IF s.offset <= lenFirst + Len(s.vcSecond)
          THEN SegInsertSecond(s, lenInsert, s.offset - lenFirst)
     ELSE IF ~HasThird(s) THEN SegFailed(s, "assert")
     ELSE SegInsertThird(s, SegInsert(s.psegThird, lenInsert))

\* seg::remove, third source
RECURSIVE SegRemove(_, _)
SegRemoveThirdDone(s, t) == [s |-> [s EXCEPT !.psegThird = t.s], err |-> t.err]

SegRemoveThird(s, lenRemove) ==
  IF lenRemove = 0 THEN SegOk(s)
  ELSE IF ~HasThird(s) THEN SegFailed(s, "assert")
  ELSE SegRemoveThirdDone(s, SegRemove(s.psegThird, lenRemove))

\* seg::remove, second source (cases c05 to c08)
SegRemoveCrop(s, lenRemove, lenSecond, offCropStart) ==
  IF offCropStart = 0
  THEN IF lenRemove >= lenSecond
       THEN SegRemoveThird([s EXCEPT !.vcSecond = <<>>], lenRemove - lenSecond)
       ELSE SegRemoveThird(
              [s EXCEPT !.vcSecond = SubSeq(s.vcSecond, lenRemove + 1, lenSecond)], 0)
  ELSE IF offCropStart + lenRemove >= lenSecond
       THEN SegRemoveThird([s EXCEPT !.vcSecond = SubSeq(s.vcSecond, 1, offCropStart)],
                           lenRemove - (lenSecond - offCropStart))
       ELSE SegRemoveThird(
              [s EXCEPT !.vcSecond = SubSeq(s.vcSecond, 1, offCropStart)
                           \o SubSeq(s.vcSecond, offCropStart + lenRemove + 1, lenSecond)],
              0)

SegRemoveSecond(s, lenRemove) ==
  LET lenFirst == s.off_endparent - s.off_parent
  IN IF lenRemove = 0 THEN SegOk(s)
     ELSE IF s.offset < lenFirst THEN SegFailed(s, "assert")
     ELSE IF s.offset < lenFirst + Len(s.vcSecond)
          THEN SegRemoveCrop(s, lenRemove, Len(s.vcSecond), s.offset - lenFirst)
     ELSE SegRemoveThird(s, lenRemove)

\* seg::remove, case c02: split, then cut the front off the new child
SegRemoveSplit(sp, lenRemove) ==
  IF sp.err # "" THEN sp
  ELSE IF sp.s.psegThird.off_parent + lenRemove >= sp.s.psegThird.off_endparent
       THEN SegFailed(sp.s, "assert")
  ELSE [sp EXCEPT !.s.psegThird.off_parent = @ + lenRemove]

\* seg::remove, case c01: data is cut off the start of the first source
SegRemoveFront(s) ==
  IF s.off_parent > s.off_endparent THEN SegFailed(s, "assert") ELSE SegOk(s)

\* seg::remove, first source (cases c04, c01, c02)
SegRemove(s, lenRemove) ==
  LET lenFirst == s.off_endparent - s.off_parent
  IN IF lenRemove = 0 THEN SegOk(s)
     ELSE IF s.offset < lenFirst
          THEN IF s.offset + lenRemove >= lenFirst
               THEN SegRemoveSecond([s EXCEPT !.off_endparent = s.off_parent + s.offset],
                                    lenRemove - (lenFirst - s.offset))
               ELSE IF s.offset = 0
                    THEN SegRemoveFront([s EXCEPT !.off_parent = s.off_parent + lenRemove])
                    ELSE SegRemoveSplit(SegSplit(s), lenRemove)
     ELSE SegRemoveSecond(s, lenRemove)

\* stream::move for a block shorter than BUFFER_SIZE: one read, then one
\* write, in either direction
StreamMove(data, from, to, len) ==
  IF from = to THEN [data |-> data, err |-> ""]
  ELSE IF from + len > Len(data) \/ to + len > Len(data)
       THEN [data |-> data, err |-> "assert"]
  ELSE [data |-> StringTryWrite(data, to, StringTryRead(data, from, len)), err |-> ""]

\* seg::commit, the end: the second source is written behind the first and
\* the flattened child is absorbed into the first source
SegCommitFold(w, poffWriteSecond) ==
  IF w.err # "" THEN w
  ELSE IF Len(w.s.vcSecond) > 0 /\ poffWriteSecond > Len(w.parent)
       THEN [w EXCEPT !.err = "seek_error"]
  ELSE [w EXCEPT
         !.parent = IF Len(w.s.vcSecond) > 0
                    THEN StringTryWrite(w.parent, poffWriteSecond, w.s.vcSecond)
                    ELSE w.parent,
         !.s = [w.s EXCEPT
                  !.vcSecond = <<>>,
                  !.off_endparent = w.s.off_endparent + Len(w.s.vcSecond)
                     + (IF HasThird(w.s) THEN SegSize(w.s.psegThird) ELSE 0),
                  !.psegThird = NoSeg]]

RECURSIVE SegCommit(_, _, _)
SegCommitThirdDone(s, t) ==
  [World([s EXCEPT !.psegThird = t.s], t.parent) EXCEPT !.err = t.err]

SegCommitThird(s, parent, poffWriteThird) ==
  IF HasThird(s)
  THEN SegCommitThirdDone(s, SegCommit(s.psegThird, parent, poffWriteThird))
  ELSE World(s, parent)

SegMoved(s, poffWriteFirst) ==
  [s EXCEPT !.off_parent = poffWriteFirst,
            !.off_endparent = poffWriteFirst + (s.off_endparent - s.off_parent)]

\* seg::commit, first source moving back: moved at once, the child after it
SegCommitBack(s, m, poffWriteFirst, poffWriteThird) ==
  IF m.err # "" THEN Failed(s, m.data, m.err)
  ELSE SegCommitThird(SegMoved(s, poffWriteFirst), m.data, poffWriteThird)

\* seg::commit, first source moving forward: the child is moved out of the
\* way before the first source
SegCommitForwardMove(w, m, poffWriteFirst) ==
  IF m.err # "" THEN Failed(w.s, m.data, m.err)
  ELSE World(SegMoved(w.s, poffWriteFirst), m.data)

SegCommitForward(w, poffWriteFirst) ==
  IF w.err # "" THEN w
  ELSE SegCommitForwardMove(w,
         StreamMove(w.parent, w.s.off_parent, poffWriteFirst,
                    w.s.off_endparent - w.s.off_parent),
         poffWriteFirst)

\* The same with the first source always moved before the child is committed
SegCommitFirstThenThird(s, parent, poffWriteFirst, poffWriteThird) ==
  IF s.off_parent # poffWriteFirst
  THEN SegCommitBack(s, StreamMove(parent, s.off_parent, poffWriteFirst,
                                   s.off_endparent - s.off_parent),
                     poffWriteFirst, poffWriteThird)
  ELSE SegCommitThird(s, parent, poffWriteThird)

SegCommitSources(s, parent, poffWriteFirst, poffWriteThird) ==
  IF s.off_parent > poffWriteFirst
  THEN SegCommitBack(s, StreamMove(parent, s.off_parent, poffWriteFirst,
                                   s.off_endparent - s.off_parent),
                     poffWriteFirst, poffWriteThird)
  ELSE IF s.off_parent < poffWriteFirst
  THEN SegCommitForward(SegCommitThird(s, parent, poffWriteThird), poffWriteFirst)
  ELSE SegCommitThird(s, parent, poffWriteThird)

SegCommit(s, parent, poffWriteFirst) ==
  LET lenFirst == s.off_endparent - s.off_parent
  IN IF s.off_parent > s.off_endparent THEN Failed(s, parent, "assert")
     ELSE SegCommitFold(
            SegCommitSources(s, parent, poffWriteFirst,
                             poffWriteFirst + lenFirst + Len(s.vcSecond)),
            poffWriteFirst + lenFirst)

\* seg::flush: the parent grows first when the content is longer than it,
\* everything is committed from offset 0, the safety checks run, and any
\* excess of the parent is cut off
SegFlushChecks(w, lenTotal, plenStream) ==
  IF w.err # "" THEN w
  ELSE IF \/ w.s.off_parent # 0
          \/ w.s.vcSecond # <<>>
          \/ HasThird(w.s)
          \/ w.s.off_endparent # lenTotal
          \/ plenStream < w.s.off_endparent
       THEN [w EXCEPT !.err = "assert"]
  ELSE IF plenStream > w.s.off_endparent
       THEN [w EXCEPT !.parent = StringTruncate(w.parent, w.s.off_endparent)]
  ELSE IF Len(w.parent) # w.s.off_endparent THEN [w EXCEPT !.err = "assert"]
  ELSE w

SegFlushGrown(s, parent, lenTotal) ==
  IF Len(parent) = 0 \/ Len(parent) # lenTotal THEN Failed(s, parent, "assert")
  ELSE SegFlushChecks(SegCommit(s, parent, 0), lenTotal, Len(parent))

SegFlush(s, parent) ==
  IF Len(parent) < SegSize(s)
  THEN SegFlushGrown(s, StringTruncate(parent, SegSize(s)), SegSize(s))
  ELSE SegFlushChecks(SegCommit(s, parent, 0), SegSize(s), Len(parent))
\* ---------------------------------------------------------------------------
\* SpecSeg: one seg over a string parent; the caller seeks, reads, writes,
\* inserts, removes and flushes.  Writes and removes stay within the current
\* size.  The state keeps the objects, not the bytes a read handed out.  hist
\* counts the calls that change the content (MaxSegOps of them), names the
\* last call and its length, and keeps the depth of the chain the call found.
\* ---------------------------------------------------------------------------

\* The chain's depth: the number of segs behind the first
RECURSIVE SegDepth(_)
SegDepth(s) == IF HasThird(s) THEN 1 + SegDepth(s.psegThird) ELSE 0

SegParents == {<<>>, <<65, 66, 67, 68, 69>>}

SegLens == {2}

SegInsertLens == {0, 2}

SegRemoveLens == {1, 3}

SegSeeks ==
  {<<off, "start">> : off \in 0 .. 6} \cup {<<-1, "cur">>, <<-1, "end">>, <<1, "end">>}

\* the bytes a write call carries, different for every call
SegWriteBytes(n, len) == [i \in 1 .. len |-> 100 + 10 * n + i]

SegInit ==
  /\ \E p \in SegParents : seg = World(NewSeg(p), p)
  /\ hist = [nops |-> 0, op |-> "open", arg |-> 0, depth |-> 0]
  /\ bit = Idle /\ lzss = Idle /\ lzw = Idle /\ dict = Idle

SegCanStep == seg.err = ""

SegRest == UNCHANGED <<bit, lzss, lzw, dict>>

\* seg::seekg; a seek_error is caught by the caller and nothing has moved
SegSeekStep(off, from) ==
  /\ SegCanStep
  /\ seg' = [seg EXCEPT !.s = SegSeek(seg.s, off, from).s, !.ret = 0, !.buf = <<>>]
  /\ hist' = [hist EXCEPT !.op = "seek", !.arg = 0, !.depth = 0]
  /\ SegRest

\* seg::try_read
SegReadStep(len) ==
  /\ SegCanStep
  /\ seg' = [SegTryRead(seg.s, seg.parent, len) EXCEPT !.buf = <<>>]
  /\ hist' = [hist EXCEPT !.op = "read", !.arg = 0, !.depth = 0]
  /\ SegRest

\* seg::try_write
SegWriteStep(len) ==
  /\ SegCanStep
  /\ hist.nops < MaxSegOps
  /\ seg.s.offset + len <= SegSize(seg.s)
  /\ seg' = SegTryWrite(seg.s, seg.parent, SegWriteBytes(hist.nops, len))
  /\ hist' = [nops |-> hist.nops + 1, op |-> "write", arg |-> 0, depth |-> 0]
  /\ SegRest

\* seg::insert
SegInsertStep(lenInsert) ==
  /\ SegCanStep
  /\ hist.nops < MaxSegOps
  /\ seg' = [seg EXCEPT !.s = SegInsert(seg.s, lenInsert).s,
                        !.err = SegInsert(seg.s, lenInsert).err,
                        !.ret = 0, !.buf = <<>>]
  /\ hist' = [nops |-> hist.nops + 1, op |-> "insert", arg |-> lenInsert,
              depth |-> SegDepth(seg.s)]
  /\ SegRest

\* seg::remove
SegRemoveStep(lenRemove) ==
  /\ SegCanStep
  /\ hist.nops < MaxSegOps
  /\ seg.s.offset + lenRemove <= SegSize(seg.s)
  /\ seg' = [seg EXCEPT !.s = SegRemove(seg.s, lenRemove).s,
                        !.err = SegRemove(seg.s, lenRemove).err,
                        !.ret = 0, !.buf = <<>>]
  /\ hist' = [nops |-> hist.nops + 1, op |-> "remove", arg |-> lenRemove,
              depth |-> SegDepth(seg.s)]
  /\ SegRest

\* seg::flush
SegFlushStep ==
  /\ SegCanStep
  /\ seg' = SegFlush(seg.s, seg.parent)
  /\ hist' = [hist EXCEPT !.op = "flush", !.arg = 0, !.depth = SegDepth(seg.s)]
  /\ SegRest

SegNext ==
  \/ \E sk \in SegSeeks : SegSeekStep(sk[1], sk[2])
  \/ \E len \in SegLens : SegReadStep(len)
  \/ \E len \in SegLens : SegWriteStep(len)
  \/ \E n \in SegInsertLens : SegInsertStep(n)
  \/ \E n \in SegRemoveLens : SegRemoveStep(n)
  \/ SegFlushStep

SpecSeg == SegInit /\ [][SegNext]_vars

\* What the seg presents: the whole stream read from position 0
SegPresented(s, parent) == SegTryRead(SegSeek(s, 0, "start").s, parent, SegSize(s))

SegContent(s, parent) == SegPresented(s, parent).buf

SegFlushCall == hist'.op = "flush"

\* C34: flush() leaves the parent's content and size equal to what the seg
\* presented just before, leaves the seek position where it was, leaves one
\* source (off_parent = 0, empty second source, no child), and none of its
\* assertions fails.
FlushFlattens ==
  [][SegFlushCall =>
       /\ seg'.err = ""
       /\ SegPresented(seg.s, seg.parent).err = ""
       /\ seg'.parent = SegContent(seg.s, seg.parent)
       /\ Len(seg'.parent) = SegSize(seg.s)
       /\ seg'.s.offset = seg.s.offset
       /\ seg'.s.off_parent = 0
       /\ seg'.s.off_endparent = Len(seg'.parent)
       /\ seg'.s.vcSecond = <<>>
       /\ ~HasThird(seg'.s)]_vars

\* A flush has flattened a chain of three segs whose content had outgrown
\* the parent, with the seek position away from the start.
FlushFlattensWitness ==
  /\ seg # Idle
  /\ hist.op = "flush"
  /\ hist.depth = 2
  /\ seg.err = ""
  /\ seg.s.offset > 0
  /\ Len(seg.parent) = 9
  /\ ~HasThird(seg.s)

SegInsertCall == hist'.op = "insert" /\ hist'.nops = hist.nops + 1

SegRemoveCall == hist'.op = "remove" /\ hist'.nops = hist.nops + 1

\* the bytes of a sequence behind its first n
Behind(q, n) == SubSeq(q, n + 1, Len(q))

\* insert(n) at position p: the position stays p, the size grows by n, and
\* the bytes before p and the bytes that were behind p read back unchanged
InsertFrame(w, v, n) ==
  /\ v.err = ""
  /\ v.s.offset = w.s.offset
  /\ SegSize(v.s) = SegSize(w.s) + n
  /\ SegPresented(v.s, v.parent).err = ""
  /\ SubSeq(SegContent(v.s, v.parent), 1, w.s.offset)
       = SubSeq(SegContent(w.s, w.parent), 1, w.s.offset)
  /\ Behind(SegContent(v.s, v.parent), w.s.offset + n)
       = Behind(SegContent(w.s, w.parent), w.s.offset)

\* remove(n) at position p with p + n <= size: the position stays p, the size
\* shrinks by n, and the bytes before p and the bytes that were behind the
\* removed block read back unchanged
RemoveFrame(w, v, n) ==
  /\ v.err = ""
  /\ v.s.offset = w.s.offset
  /\ SegSize(v.s) = SegSize(w.s) - n
  /\ SegPresented(v.s, v.parent).err = ""
  /\ SubSeq(SegContent(v.s, v.parent), 1, w.s.offset)
       = SubSeq(SegContent(w.s, w.parent), 1, w.s.offset)
  /\ Behind(SegContent(v.s, v.parent), w.s.offset)
       = Behind(SegContent(w.s, w.parent), w.s.offset + n)

\* C35: insert(n) at position p leaves the position p and the size n larger;
\* remove(n) with p + n <= size leaves the position p and the size n smaller;
\* in both cases the bytes before p and the bytes behind the inserted or
\* removed block are unchanged when read back through the seg.
InsertRemoveFrame ==
  /\ [][SegInsertCall => InsertFrame(seg, seg', hist'.arg)]_vars
  /\ [][SegRemoveCall => RemoveFrame(seg, seg', hist'.arg)]_vars

\* An insert has split the first source and a remove has then acted inside
\* the child: the remove found a chain of two segs with the position behind
\* the second source, and the content is now a byte shorter than the parent.
InsertRemoveFrameWitness ==
  /\ seg # Idle
  /\ hist.nops = MaxSegOps
  /\ hist.op = "remove"
  /\ hist.arg = 3
  /\ hist.depth = 1
  /\ seg.err = ""
  /\ seg.s.offset > (seg.s.off_endparent - seg.s.off_parent) + Len(seg.s.vcSecond)
  /\ SegSize(seg.s) = Len(seg.parent) - 1

----------------------------------------------------------------------------
(* SpecLzwAgree: the round trip of SpecLzw with a log of the compressor's   *)
(* codeword widths.  lzw.widths[n] is the width at which the compressor     *)
(* wrote its n-th codeword.                                                 *)

AgreeInit ==
  /\ \E cfg \in LzwConfigs, s \in LzwStrings, junk \in LzwJunk :
       lzw = [phase |-> "compress", cfg |-> cfg, src |-> s, comp |-> <<>>,
              widths |-> <<>>,
              enc |-> NewLzwCompress(cfg, junk),
              dec |-> NewLzwDecompress(cfg, junk),
              drv |-> LzwDriver, populated |-> FALSE]
  /\ bit = Idle /\ hist = Idle /\ lzss = Idle /\ dict = Idle /\ seg = Idle

\* The widths of the next count codewords of a compressor in state t: each
\* iteration of the loop writes at currentBits and then does its bookkeeping.
RECURSIVE LoopWidths(_, _)
LoopWidths(t, count) ==
  IF count = 0 THEN <<>>
  ELSE <<t.currentBits>> \o LoopWidths(LzwCompressGrow(t), count - 1)

\* The widths of the codewords written by the call that turned pre into t:
\* one codeword for each byte taken, and the EOF codeword where the call
\* wrote it.
WidthsWritten(pre, t) ==
  LoopWidths(pre, t.r)
    \o (IF /\ t.lenIn = 0 /\ "LZW_EOF_PARAM_VALID" \in pre.flags
           /\ pre.curEOFCode > 0 /\ t.curEOFCode = 0
        THEN <<pre.currentBits>> ELSE <<>>)

AgreeCompressIter(t) ==
  lzw' = [LzwCompressed(t, AfterTransform(lzw.drv, t, BufIn(lzw.drv, lzw.src)))
            EXCEPT !.widths = lzw.widths \o WidthsWritten(lzw.enc, t)]

\* One iteration of realPopulate's loop around filter_lzw_compress.
AgreeCompressStep ==
  /\ lzw.phase = "compress" /\ lzw.populated /\ lzw.enc.err = ""
  /\ AgreeCompressIter(LzwCompressTransform(lzw.enc, BufIn(lzw.drv, lzw.src),
                                            lzw.drv.size))
  /\ UNCHANGED <<bit, hist, lzss, dict, seg>>

AgreeNext ==
  \/ LzwCompressBegin
  \/ AgreeCompressStep
  \/ LzwDecompressBegin
  \/ LzwDecompressStep

SpecLzwAgree == AgreeInit /\ [][AgreeNext]_vars

\* The codewords the decompressor has read.  Every codeword this compressor
\* writes is a byte value, which decodes to that one byte, so there are as
\* many as bytes handed out or waiting in the decompressor's buffer.
CodewordsRead == Len(lzw.drv.data) + Len(lzw.dec.buffer)

\* C36 (LZW encoder/decoder width agreement): the decompressor reads its
\* n-th codeword at the width at which the compressor wrote its n-th
\* codeword, across every width increase and every dictionary reset: having
\* read n - 1 codewords, its currentBits is the compressor's n-th width.
LzwWidthAgreement ==
  (/\ lzw.phase \in {"decompress", "done"} /\ lzw.populated
   /\ CodewordsRead < Len(lzw.widths))
    => lzw.dec.currentBits = lzw.widths[CodewordsRead + 1]

----------------------------------------------------------------------------
(* SpecReserve: the compressors called with one byte of input and cap bytes *)
(* of room per call, so that a call runs its loop at most once and writes   *)
(* at most one codeword, and the LZW compressor's output decompressed with  *)
(* room for one byte per call, so that a call reads at most one codeword.   *)
(* The call that ends the compressor's pass gets no input and a whole       *)
(* buffer.                                                                  *)

\* Round trips with codewords of 9 bits and of 16 bits.
ReserveConfigs ==
  { LzwConfig(9, 10, 257, 256, 0, {"LZW_BIG_ENDIAN", "LZW_EOF_PARAM_VALID"}),
    LzwConfig(16, 16, 256, 0, 0, {}) }

\* Compressors alone: codewords of 15 bits, which start at every bit of a
\* byte, and codewords that widen with every codeword from 2 to 9 bits.
CompressOnlyConfigs ==
  { LzwConfig(15, 16, 256, 0, 0, {"LZW_BIG_ENDIAN"}),
    LzwConfig(15, 16, 256, 0, 0, {}),
    LzwConfig(2, 16, 4, 0, 0, {}) }

ReserveStrings == { [i \in 1 .. n |-> 1] : n \in {MaxLen, MaxReserveLen} }

ReserveCaps == 1 .. LZW_LEFTOVER_BYTES + 2

ReserveInit ==
  /\ \/ /\ \E cfg \in CompressOnlyConfigs, s \in ReserveStrings :
             lzw = [phase |-> "compress", cfg |-> cfg, src |-> s, comp |-> <<>>,
                    fed |-> 0,
                    enc |-> NewLzwCompress(cfg, 0), populated |-> FALSE]
        /\ lzss = NoPass
     \/ /\ \E e \in {littleEndian, bigEndian}, s \in ReserveStrings :
             lzss = [phase |-> "compress", src |-> s, comp |-> <<>>, fed |-> 0,
                     enc |-> NewLzssCompress(e, 2, 2), populated |-> FALSE]
        /\ lzw = NoPass
     \/ /\ \E cfg \in ReserveConfigs, s \in ReserveStrings :
             lzw = [phase |-> "compress", cfg |-> cfg, src |-> s, comp |-> <<>>,
                    fed |-> 0,
                    enc |-> NewLzwCompress(cfg, 0),
                    dec |-> NewLzwDecompress(cfg, 0),
                    drv |-> LzwDriver, populated |-> FALSE]
        /\ lzss = NoPass
  /\ bit = Idle /\ hist = Idle /\ dict = Idle /\ seg = Idle

\* The input of the next call: the next byte of the source, if there is one
NextByte(p) == SubSeq(p.src, p.fed + 1, Min(p.fed + 1, Len(p.src)))

\* The caller takes the bytes written and goes on behind the bytes read; the
\* call without input ends the pass.
ReserveFed(p, t) ==
  IF t.err # "" THEN [p EXCEPT !.enc = t, !.phase = "failed"]
  ELSE [p EXCEPT !.enc = t, !.comp = p.comp \o t.outb, !.fed = p.fed + t.r,
                 !.populated = (t.lenIn > 0),
                 !.phase = IF t.lenIn > 0 THEN "compress"
                           ELSE IF "dec" \in DOMAIN p THEN "decompress" ELSE "done"]

\* filter_lzw_compress::transform with one byte of input and cap bytes of room
ReserveLzwCompress(cap) ==
  /\ lzw.phase = "compress" /\ lzw.populated /\ lzw.enc.err = ""
  /\ NextByte(lzw) = <<>> => cap = LZW_LEFTOVER_BYTES + 2
  /\ lzw' = ReserveFed(lzw, LzwCompressTransform(lzw.enc, NextByte(lzw), cap))
  /\ UNCHANGED <<bit, hist, lzss, dict, seg>>

\* filter_lzw_decompress::transform with room for one byte
ReserveLzwDecompress ==
  /\ lzw.phase = "decompress" /\ lzw.populated /\ lzw.dec.err = ""
  /\ LzwDecompressIter(LzwDecompressTransform(lzw.dec, BufIn(lzw.drv, lzw.comp), 1))
  /\ UNCHANGED <<bit, hist, lzss, dict, seg>>

\* filter_lzss_compress::reset
ReserveLzssReset ==
  /\ lzss.phase = "compress" /\ ~lzss.populated
  /\ lzss' = [lzss EXCEPT !.populated = TRUE, !.enc = LzssCompressReset(lzss.enc)]
  /\ UNCHANGED <<bit, hist, lzw, dict, seg>>

\* filter_lzss_compress::transform with one byte of input and cap bytes of room
ReserveLzssCompress(cap) ==
  /\ lzss.phase = "compress" /\ lzss.populated /\ lzss.enc.err = ""
  /\ NextByte(lzss) = <<>> => cap = LZSS_LEFTOVER_BYTES + 2
  /\ lzss' = ReserveFed(lzss, LzssCompressTransform(lzss.enc, NextByte(lzss), cap))
  /\ UNCHANGED <<bit, hist, lzw, dict, seg>>

ReserveNext ==
  \/ LzwCompressBegin
  \/ \E cap \in ReserveCaps : ReserveLzwCompress(cap)
  \/ LzwDecompressBegin
  \/ ReserveLzwDecompress
  \/ ReserveLzssReset
  \/ \E cap \in ReserveCaps : ReserveLzssCompress(cap)

SpecReserve == ReserveInit /\ [][ReserveNext]_vars

\* A call of a compressor that took its byte wrote a codeword of bits bits:
\* it had more than the reserve free and the write returned all the bits.
WroteWhole(pre, t, bits, reserve) ==
  (pre.phase = "compress" /\ pre.populated /\ t.r > 0)
    => t.lenOut > reserve /\ t.ret = bits

\* A call of the decompressor that was given more than the reserve and read
\* a codeword got all of its bits.
ReadWhole(pre, t) ==
  (/\ pre.phase = "decompress" /\ pre.populated
   /\ pre.dec.buffer = <<>> /\ t.r > 0 /\ t.lenIn > LZW_LEFTOVER_BYTES)
    => t.ret = pre.dec.currentBits

----------------------------------------------------------------------------
(* SpecLzssStates: filter_lzss_decompress::transform taken one iteration of *)
(* its while loop at a time, inside the loop of input_filtered::            *)
(* realPopulate.  The input is any byte string, so every sequence of tokens *)
(* and every truncation occurs; a filter may serve more than one pass.      *)

\* One iteration of the switch for the states S0..S3, after the read; the
\* result is the filter and the local needMoreData.
LzssCase(t, wanted) ==
  IF t.err # "" THEN [t |-> t, needMoreData |-> TRUE]
  ELSE IF t.state = "S0_READ_FLAG"
  THEN IF t.ret = 0 THEN [t |-> t, needMoreData |-> TRUE]
       ELSE [t |-> [t EXCEPT !.state = IF t.out = 0 THEN "S1_COPY_BYTE"
                                       ELSE "S2_READ_LEN"],
             needMoreData |-> FALSE]
  ELSE IF t.ret # wanted THEN [t |-> t, needMoreData |-> TRUE]
  ELSE IF t.state = "S1_COPY_BYTE"
  THEN [t |-> [LzssEmit(t, U8(t.out)) EXCEPT !.state = "S0_READ_FLAG"],
        needMoreData |-> FALSE]
  ELSE IF t.state = "S2_READ_LEN"
  THEN [t |-> [t EXCEPT !.lzssLength = 2 + t.out, !.state = "S3_READ_DIST"],
        needMoreData |-> FALSE]
  ELSE [t |-> [t EXCEPT !.lzssDistance = 1 + t.out, !.state = "S4_COPY_REF"],
        needMoreData |-> FALSE]

\* The body of the while loop, once
LzssIteration(t) ==
  IF t.state = "S4_COPY_REF" THEN [t |-> LzssCopyRef(t), needMoreData |-> FALSE]
  ELSE LzssCase(read(t, "cbNext", LzssBitsWanted(t)), LzssBitsWanted(t))

\* The condition of the while loop
LzssLoopCondition(t) == t.w < t.lenOut /\ (t.r < t.lenIn \/ t.lzssLength # 0)

\* Fields of 2 and 2 bits, and a length field of 14 bits: a read can fail
\* only in S3_READ_DIST, the one state whose iteration runs without input,
\* and only where the bits of a token's fields are more than one byte.
StateConfigs ==
  { [sizeLength |-> 2, sizeDistance |-> 2, bytes |-> {0, 85, 255}, len |-> MaxLen],
    [sizeLength |-> 14, sizeDistance |-> 2, bytes |-> {0, 1, 128}, len |-> MaxCut] }
StateStrings(c) == UNION { [1 .. n -> c.bytes] : n \in 0 .. c.len }
StateDrivers == { [NewDriver EXCEPT !.size = n] : n \in {DrvBufSize, BUFFER_SIZE} }

StatesInit ==
  /\ \E e \in {littleEndian, bigEndian}, c \in StateConfigs, d \in StateDrivers :
       \E s \in StateStrings(c) :
         lzss = [phase |-> "decompress", comp |-> s,
                 dec |-> NewLzssDecompress(e, c.sizeLength, c.sizeDistance, 0),
                 drv |-> d, populated |-> FALSE, passes |-> 1,
                 inLoop |-> FALSE, needMoreData |-> FALSE,
                 entered |-> NewLzssDecompress(e, c.sizeLength, c.sizeDistance, 0)]
  /\ bit = Idle /\ hist = Idle /\ lzw = Idle /\ dict = Idle /\ seg = Idle

\* transform is entered with the driver's buffer and lenOut bytes of room
StatesEnter(lenOut) ==
  /\ lzss.phase = "decompress" /\ lzss.populated /\ ~lzss.inLoop
  /\ lzss' = [lzss EXCEPT
       !.dec = EnterTransform(lzss.dec, BufIn(lzss.drv, lzss.comp), lenOut),
       !.entered = EnterTransform(lzss.dec, BufIn(lzss.drv, lzss.comp), lenOut),
       !.inLoop = TRUE, !.needMoreData = FALSE]
  /\ UNCHANGED <<bit, hist, lzw, dict, seg>>

StatesIterated(c) ==
  [lzss EXCEPT !.dec = c.t, !.needMoreData = c.needMoreData,
               !.phase = IF c.t.err # "" THEN "failed" ELSE "decompress"]

\* One iteration of the while loop
StatesIterate ==
  /\ lzss.phase = "decompress" /\ lzss.inLoop /\ ~lzss.needMoreData
  /\ LzssLoopCondition(lzss.dec)
  /\ lzss' = StatesIterated(LzssIteration(lzss.dec))
  /\ UNCHANGED <<bit, hist, lzw, dict, seg>>

StatesReturned(d) ==
  [lzss EXCEPT !.drv = d, !.inLoop = FALSE, !.needMoreData = FALSE,
               !.phase = IF d.done THEN "done" ELSE "decompress"]

\* The loop is left and transform returns to realPopulate
StatesReturn ==
  /\ lzss.phase = "decompress" /\ lzss.inLoop
  /\ lzss.needMoreData \/ ~LzssLoopCondition(lzss.dec)
  /\ lzss' = StatesReturned(AfterTransform(lzss.drv, lzss.dec, lzss.dec.inb))
  /\ UNCHANGED <<bit, hist, lzw, dict, seg>>

\* The filter is given to another pass over the same input
StatesAgain ==
  /\ lzss.phase = "done" /\ lzss.passes < StatePasses
  /\ lzss' = [lzss EXCEPT !.phase = "decompress", !.populated = FALSE,
                          !.passes = lzss.passes + 1,
                          !.drv = [NewDriver EXCEPT !.size = lzss.drv.size]]
  /\ UNCHANGED <<bit, hist, lzw, dict, seg>>

StatesNext ==
  \/ LzssDecompressBegin
  \/ \E lenOut \in OutCaps : StatesEnter(lenOut)
  \/ StatesIterate
  \/ StatesReturn
  \/ StatesAgain

SpecLzssStates == StatesInit /\ [][StatesNext]_vars

\* The iterations of one call together are the while loop
IterationsAreTheLoop ==
  (lzss.inLoop /\ (lzss.needMoreData \/ ~LzssLoopCondition(lzss.dec))
     /\ lzss.phase = "decompress")
    => lzss.dec = LzssDecompressLoop(lzss.entered)

StateMoves ==
  { <<"S0_READ_FLAG", "S1_COPY_BYTE">>, <<"S1_COPY_BYTE", "S0_READ_FLAG">>,
    <<"S0_READ_FLAG", "S2_READ_LEN">>, <<"S2_READ_LEN", "S3_READ_DIST">>,
    <<"S3_READ_DIST", "S4_COPY_REF">>, <<"S4_COPY_REF", "S0_READ_FLAG">> }

\* The step is the call of reset() that begins a pass
StatesResetCall == ~lzss.populated /\ lzss'.populated

\* The step changes the state as the switch may, or it is reset()
StateMoved(d, e) ==
  d.state # e.state =>
    IF StatesResetCall THEN e.state = "S0_READ_FLAG"
    ELSE /\ <<d.state, e.state>> \in StateMoves
         /\ d.state = "S4_COPY_REF" => d.lzssLength = 0

\* An iteration whose read failed leaves the state and the length alone
FailedReadKeeps(d, e) ==
  (lzss.inLoop /\ lzss'.inLoop /\ lzss'.needMoreData)
    => e.state = d.state /\ e.lzssLength = d.lzssLength

PendingOnlyInRef(d) ==
  d.lzssLength # 0 => d.state \in {"S3_READ_DIST", "S4_COPY_REF"}

\* C38 (LZSS decoder state machine): every step that changes the state goes
\* along ReadFlag -> CopyByte -> ReadFlag or ReadFlag -> ReadLen -> ReadDist
\* -> CopyRef -> ReadFlag, or is reset() going to ReadFlag; an iteration
\* whose read failed keeps the state; the pending copy length is non-zero
\* only in ReadDist and CopyRef; CopyRef is left by the switch only with the
\* pending copy length 0.
LzssStateMachine ==
  [][/\ StateMoved(lzss.dec, lzss'.dec)
     /\ FailedReadKeeps(lzss.dec, lzss'.dec)
     /\ PendingOnlyInRef(lzss.dec)
     /\ PendingOnlyInRef(lzss'.dec)]_vars

\* In a second pass, after reset(), a reference's length was read with the
\* last bits of the input and the iteration that reads its distance failed:
\* the state stays S3_READ_DIST with the length pending.
LzssStateMachineWitness ==
  /\ lzss.phase = "decompress" /\ lzss.inLoop /\ lzss.needMoreData
  /\ lzss.dec.state = "S3_READ_DIST"
  /\ lzss.dec.lzssLength > 0
  /\ lzss.dec.ret < lzss.dec.sizeDistance
  /\ lzss.passes > 1

----------------------------------------------------------------------------
(* SpecDictSize: one Dictionary called as filter_lzw_decompress calls it:   *)
(* decode(oldCode, code) with any codeword of maxBits bits, oldCode being   *)
(* the codeword before it, and reset() followed by a first codeword, which  *)
(* is not decoded.  A decode that threw is followed by reset() only.        *)

\* maxBits and codeStart of the dictionaries: empty, partly filled and full
\* from the start.
DictShapes == { <<1, 1>>, <<2, 0>>, <<2, 2>>, <<2, 4>>, <<3, 5>> }

\* unsigned Dictionary::size() const
DictionarySize(d) == d.newCodeStringIndex

DictSizeInit ==
  /\ \E shape \in DictShapes : \E first \in 0 .. Pow2(shape[1]) - 1 :
       dict = [d |-> NewDictionary(shape[1], shape[2]), maxBits |-> shape[1],
               oldCode |-> first, op |-> "new", err |-> "",
               before |-> shape[2], calls |-> 0]
  /\ bit = Idle /\ hist = Idle /\ lzss = Idle /\ lzw = Idle /\ seg = Idle

DictDecoded(r, code) ==
  [dict EXCEPT !.d = r.d, !.err = r.err, !.op = "decode",
               !.oldCode = IF r.err = "" THEN code ELSE dict.oldCode,
               !.before = DictionarySize(dict.d), !.calls = dict.calls + 1]

\* dictionary.decode(oldCode, code, buffer); oldCode = code
DictDecodeCall(code) ==
  /\ dict.err = "" /\ dict.calls < MaxDictCalls
  /\ dict' = DictDecoded(decode(dict.d, dict.oldCode, code), code)
  /\ UNCHANGED <<bit, hist, lzss, lzw, seg>>

\* dictionary.reset(), then the first codeword
DictResetCall(first) ==
  /\ dict.calls < MaxDictCalls
  /\ dict' = [dict EXCEPT !.d = DictionaryReset(dict.d), !.err = "",
                          !.op = "reset", !.oldCode = first,
                          !.before = DictionarySize(dict.d),
                          !.calls = dict.calls + 1]
  /\ UNCHANGED <<bit, hist, lzss, lzw, seg>>

DictSizeNext ==
  \/ \E code \in 0 .. Pow2(dict.maxBits) - 1 : DictDecodeCall(code)
  \/ \E first \in 0 .. Pow2(dict.maxBits) - 1 : DictResetCall(first)

SpecDictSize == DictSizeInit /\ [][DictSizeNext]_vars

DictSizeBounds ==
  /\ dict.d.codeStart <= DictionarySize(dict.d)
  /\ DictionarySize(dict.d) <= Pow2(dict.maxBits)

\* What a call does to the size: a decode that returns adds one entry below
\* capacity and none to a full table, a decode that throws adds none, and
\* reset goes to codeStart; nothing but reset lowers the size.
DictSizeStep(size, after) ==
  /\ (dict'.op = "decode" /\ dict'.err = "")
       => after = IF size < Pow2(dict.maxBits) THEN size + 1 ELSE size
  /\ (dict'.op = "decode" /\ dict'.err # "") => after = size
  /\ dict'.op = "reset" => after = dict.d.codeStart
  /\ after < size => dict'.op = "reset"

----------------------------------------------------------------------------
\* C40 (LZSS decoder completeness): when a pass over the bytes of a token
\* stream ends, every token has been decoded: as many bytes have been output
\* as the tokens stand for, a last token whose bits all lie in the last input
\* byte included.
LzssDecoderCompleteness ==
  (lzss.kind = "tokens" /\ lzss.phase = "done")
    => Len(lzss.drv.data) = Len(Expand(lzss.tokens, <<>>))

\* A pass that ended with the decompressor between two tokens, all input
\* bytes fetched, and less output than the tokens stand for.
LzssDecoderIncompleteWitness ==
  /\ lzss.kind = "tokens" /\ lzss.phase = "done"
  /\ lzss.dec.state = "S0_READ_FLAG"
  /\ lzss.drv.pos = Len(lzss.comp) /\ lzss.drv.leftover = <<>>
  /\ Len(lzss.drv.data) < Len(Expand(lzss.tokens, <<>>))

====
